---- MODULE Spec2Model ----
(***************************************************************************)
(* Model of the oscilloscope screen-capture script (lecroy_capture.py):    *)
(* the VICP frame receiver, the vendor dispatcher and the capture          *)
(* orchestration of main / vicp_capture / scpi_capture.                    *)
(*                                                                         *)
(* Byte strings and text are sequences of integers (byte values / code     *)
(* points).  A VISA resource string is the sequence of its "::"-separated  *)
(* fields, each field a text.                                              *)
(***************************************************************************)
EXTENDS FiniteSets, Integers, Sequences, TLC

(***************************************************************************)
(* Bounds of the model.                                                    *)
(***************************************************************************)
MaxFrames == 2
MaxPayload == 2

(***************************************************************************)
(* Program constants.                                                      *)
(***************************************************************************)
_VICP_HLEN == 8
VICP_PORT == 1861
MIN_IMAGE == 100

\* Python's None where a byte string is expected (bytes are 0..255).
None == <<-1>>

Min(a, b) == IF a < b THEN a ELSE b

\* Python truthiness of an Optional[bytes] value.
Truthy(data) == data # None /\ Len(data) > 0

(***************************************************************************)
(* VICP wire format                                                        *)
(***************************************************************************)
\* op & 0x80
IsData(o) == (o \div 128) % 2 = 1
\* op & 0x01
IsEoi(o) == o % 2 = 1

\* struct.unpack(">BBBBI", raw_hdr): the op byte and the big-endian length.
UnpackOp(hdr) == hdr[1]
UnpackLength(hdr) == hdr[5] * 16777216 + hdr[6] * 65536 + hdr[7] * 256 + hdr[8]

\* struct.pack(">BBBBI", o, ver, sq, pad, len): four bytes and the length as
\* four bytes, most significant first.
PackHdr_LittleEndian(o, ver, sq, pad, len) ==
    << o, ver, sq, pad,
       len % 256, (len \div 256) % 256,
       (len \div 65536) % 256, (len \div 16777216) % 256 >>

PackHdr(o, ver, sq, pad, len) ==
    << o, ver, sq, pad,
       (len \div 16777216) % 256, (len \div 65536) % 256,
       (len \div 256) % 256, len % 256 >>

\* What a peer puts on the wire for one frame: 8 header bytes and the payload.
FrameBytes(f) == PackHdr(f.op, 1, f.seq, 0, Len(f.payload)) \o f.payload

RECURSIVE Wire(_)
Wire(fs) == IF fs = <<>> THEN <<>> ELSE FrameBytes(Head(fs)) \o Wire(Tail(fs))

\* The peers considered: op bytes DATA, DATA|EOI, SRQ, EOI and short payloads.
PeerOps == {128, 129, 8, 1}
PeerBytes == {65, 66}
Payloads == UNION {[1..n -> PeerBytes] : n \in 0..MaxPayload}
FrameSeqs ==
    UNION {[1..n -> [op : PeerOps, seq : {1}, payload : Payloads]] : n \in 0..MaxFrames}

(***************************************************************************)
(* Text helpers (str.upper, str.strip, substring test, bytes.decode)       *)
(***************************************************************************)
\* str.upper() on one code point (ASCII letters; other samples are unchanged).
UpperChar(c) == IF c >= 97 /\ c <= 122 THEN c - 32 ELSE c
Upper(s) == [i \in 1..Len(s) |-> UpperChar(s[i])]

\* Python's "k in s" for strings.
Contains(s, k) ==
    \E i \in 0..(Len(s) - Len(k)) : SubSeq(s, i + 1, i + Len(k)) = k

\* str.strip(): leading and trailing ASCII whitespace removed.
IsSpace(c) == c \in (9..13) \cup (28..32)
RECURSIVE LStrip(_)
LStrip(s) == IF s # <<>> /\ IsSpace(Head(s)) THEN LStrip(Tail(s)) ELSE s
RECURSIVE RStrip(_)
RStrip(s) ==
    IF s # <<>> /\ IsSpace(s[Len(s)]) THEN RStrip(SubSeq(s, 1, Len(s) - 1)) ELSE s
Strip(s) == RStrip(LStrip(s))

\* bytes.decode("ascii", errors="replace"): a byte >= 128 becomes U+FFFD.
DecodeAscii(b) == [i \in 1..Len(b) |-> IF b[i] < 128 THEN b[i] ELSE 65533]

K_LECROY == <<76, 69, 67, 82, 79, 89>>  \* "LECROY"
K_TELEDYNE == <<84, 69, 76, 69, 68, 89, 78, 69>>  \* "TELEDYNE"
K_TEKTRONIX == <<84, 69, 75, 84, 82, 79, 78, 73, 88>>  \* "TEKTRONIX"
K_TEK == <<84, 69, 75>>  \* "TEK"
K_KEYSIGHT == <<75, 69, 89, 83, 73, 71, 72, 84>>  \* "KEYSIGHT"
K_AGILENT == <<65, 71, 73, 76, 69, 78, 84>>  \* "AGILENT"
K_HEWLETT == <<72, 69, 87, 76, 69, 84, 84>>  \* "HEWLETT"
K_RIGOL == <<82, 73, 71, 79, 76>>  \* "RIGOL"
K_SIGLENT == <<83, 73, 71, 76, 69, 78, 84>>  \* "SIGLENT"
K_ROHDE == <<82, 79, 72, 68, 69>>  \* "ROHDE"
K_ROHDE_SCHWARZ == <<82, 79, 72, 68, 69, 38, 83, 67, 72, 87, 65, 82, 90>>  \* "ROHDE&SCHWARZ"
K_RS == <<82, 38, 83>>  \* "R&S"
\* "(no IDN response)", the text used when the identity query raises (line 304).
NO_IDN == <<40, 110, 111, 32, 73, 68, 78, 32, 114, 101, 115, 112, 111, 110, 115, 101, 41>>

\* detect_vendor with the final default changed to the first vendor tag.
detect_vendor_DefaultLecroy(idn) ==
    LET idn_upper == Upper(idn) IN
    IF Contains(idn_upper, K_LECROY) \/ Contains(idn_upper, K_TELEDYNE) THEN "LECROY"
    ELSE IF Contains(idn_upper, K_TEKTRONIX) \/ Contains(idn_upper, K_TEK) THEN "TEKTRONIX"
    ELSE IF Contains(idn_upper, K_KEYSIGHT) \/ Contains(idn_upper, K_AGILENT)
            \/ Contains(idn_upper, K_HEWLETT) THEN "KEYSIGHT"
    ELSE IF Contains(idn_upper, K_RIGOL) THEN "RIGOL"
    ELSE IF Contains(idn_upper, K_SIGLENT) THEN "SIGLENT"
    ELSE IF Contains(idn_upper, K_ROHDE) \/ Contains(idn_upper, K_ROHDE_SCHWARZ)
            \/ Contains(idn_upper, K_RS) THEN "RNS"
    ELSE "LECROY"

detect_vendor(idn) ==
    LET idn_upper == Upper(idn) IN
    IF Contains(idn_upper, K_LECROY) \/ Contains(idn_upper, K_TELEDYNE) THEN "LECROY"
    ELSE IF Contains(idn_upper, K_TEKTRONIX) \/ Contains(idn_upper, K_TEK) THEN "TEKTRONIX"
    ELSE IF Contains(idn_upper, K_KEYSIGHT) \/ Contains(idn_upper, K_AGILENT)
            \/ Contains(idn_upper, K_HEWLETT) THEN "KEYSIGHT"
    ELSE IF Contains(idn_upper, K_RIGOL) THEN "RIGOL"
    ELSE IF Contains(idn_upper, K_SIGLENT) THEN "SIGLENT"
    ELSE IF Contains(idn_upper, K_ROHDE) \/ Contains(idn_upper, K_ROHDE_SCHWARZ)
            \/ Contains(idn_upper, K_RS) THEN "RNS"
    ELSE "UNKNOWN"

(***************************************************************************)
(* _strip_ieee_block                                                       *)
(***************************************************************************)
IsDigit(c) == c >= 48 /\ c <= 57
Max(a, b) == IF a > b THEN a ELSE b

\* data[start:stop] for start >= 0 (a negative stop counts from the end).
PySlice(data, start, stop) ==
    LET e == IF stop < 0 THEN Max(Len(data) + stop, 0) ELSE Min(stop, Len(data))
    IN SubSeq(data, start + 1, e)

\* bytes.strip() as int() applies it: ASCII whitespace 9..13 and 32.
IsByteSpace(c) == c \in (9..13) \cup {32}
RECURSIVE LStripB(_)
LStripB(s) == IF s # <<>> /\ IsByteSpace(Head(s)) THEN LStripB(Tail(s)) ELSE s
RECURSIVE RStripB(_)
RStripB(s) ==
    IF s # <<>> /\ IsByteSpace(s[Len(s)]) THEN RStripB(SubSeq(s, 1, Len(s) - 1)) ELSE s

\* The digits of an int() literal body: digits with single "_" between them.
IntBodyOk(b) ==
    /\ b # <<>>
    /\ IsDigit(b[1]) /\ IsDigit(b[Len(b)])
    /\ \A i \in 1..Len(b) : IsDigit(b[i]) \/ b[i] = 95
    /\ \A i \in 1..(Len(b) - 1) : ~(b[i] = 95 /\ b[i + 1] = 95)

RECURSIVE IntBodyValue(_, _)
IntBodyValue(b, acc) ==
    IF b = <<>> THEN acc
    ELSE IF Head(b) = 95 THEN IntBodyValue(Tail(b), acc)
    ELSE IntBodyValue(Tail(b), acc * 10 + (Head(b) - 48))

\* int(b) for a byte string: <<TRUE, value>>, or <<FALSE, 0>> for ValueError.
ParseInt(b) ==
    LET t == RStripB(LStripB(b))
        signed == t # <<>> /\ t[1] \in {43, 45}
        body == IF signed THEN Tail(t) ELSE t
    IN IF ~IntBodyOk(body) THEN <<FALSE, 0>>
       ELSE <<TRUE, IF signed /\ t[1] = 45 THEN 0 - IntBodyValue(body, 0)
                    ELSE IntBodyValue(body, 0)>>

\* _strip_ieee_block(data), lines 607-616.
_strip_ieee_block_KeepDigits(data) ==
    IF data = <<>> \/ data[1] # 35 THEN data
    ELSE IF Len(data) < 2 \/ ~IsDigit(data[2]) THEN data
    ELSE LET n_digits == data[2] - 48
             bc == ParseInt(PySlice(data, 2, 2 + n_digits))
         IN IF ~bc[1] THEN data
            ELSE PySlice(data, 2, 2 + bc[2])
_strip_ieee_block(data) ==
    IF data = <<>> \/ data[1] # 35 THEN data
    ELSE IF Len(data) < 2 \/ ~IsDigit(data[2]) THEN data
    ELSE LET n_digits == data[2] - 48
             bc == ParseInt(PySlice(data, 2, 2 + n_digits))
         IN IF ~bc[1] THEN data
            ELSE PySlice(data, 2 + n_digits, 2 + n_digits + bc[2])

(***************************************************************************)
(* VISA resource strings                                                   *)
(***************************************************************************)
\* The code points of the texts that resource strings are written with.
Txt(t) ==
    CASE t = "TCPIP" -> <<84, 67, 80, 73, 80>>
      [] t = "Tcpip" -> <<84, 99, 112, 105, 112>>
      [] t = "TCPIP::" -> <<84, 67, 80, 73, 80, 58, 58>>
      [] t = "::" -> <<58, 58>>
      [] t = "USB0" -> <<85, 83, 66, 48>>
      [] t = "0x05FF" -> <<48, 120, 48, 53, 70, 70>>
      [] t = "INSTR" -> <<73, 78, 83, 84, 82>>
      [] t = "INST" -> <<73, 78, 83, 84>>
      [] t = "SOCKET" -> <<83, 79, 67, 75, 69, 84>>
      [] t = "RAW" -> <<82, 65, 87>>
      [] t = "inst0" -> <<105, 110, 115, 116, 48>>
      [] t = "hislip0" -> <<104, 105, 115, 108, 105, 112, 48>>
      [] t = "VICP" -> <<86, 73, 67, 80>>
      [] t = "10.0.0.5" -> <<49, 48, 46, 48, 46, 48, 46, 53>>
      [] t = "192.168.1.20" -> <<49, 57, 50, 46, 49, 54, 56, 46, 49, 46, 50, 48>>
      [] t = "scope.local" -> <<115, 99, 111, 112, 101, 46, 108, 111, 99, 97, 108>>
      [] t = "::inst0::INSTR" -> <<58, 58, 105, 110, 115, 116, 48, 58, 58, 73, 78, 83, 84, 82>>
      [] t = "::hislip0::INSTR" -> <<58, 58, 104, 105, 115, 108, 105, 112, 48, 58, 58, 73, 78, 83, 84, 82>>
      [] t = "::SOCKET" -> <<58, 58, 83, 79, 67, 75, 69, 84>>
      [] t = "TCPIP::10.0.0.5::4000::SOCKET" -> <<84, 67, 80, 73, 80, 58, 58, 49, 48, 46, 48, 46, 48, 46, 53, 58, 58, 52, 48, 48, 48, 58, 58, 83, 79, 67, 75, 69, 84>>
      [] t = "5025" -> <<53, 48, 50, 53>>
      [] t = "1861" -> <<49, 56, 54, 49>>

\* str(n) for n >= 0, as the f-strings of lines 194 and 199 format the port.
RECURSIVE Str(_)
Str(n) == IF n < 10 THEN <<48 + n>> ELSE Str(n \div 10) \o <<48 + (n % 10)>>

SCOPE_IP == Txt("10.0.0.5")

\* lines 190-191 and 197-198: the VXI-11 and HiSLIP resources, in this order.
StructuredForms_HislipFirst(ip) ==
    << <<Txt("TCPIP"), ip, Txt("hislip0"), Txt("INSTR")>>, <<Txt("TCPIP"), ip, Txt("inst0"), Txt("INSTR")>> >>
StructuredForms(ip) ==
    << <<Txt("TCPIP"), ip, Txt("inst0"), Txt("INSTR")>>, <<Txt("TCPIP"), ip, Txt("hislip0"), Txt("INSTR")>> >>

\* line 193: p = 5025 if port in (0, 5025) else 1861, for port in (0, 1861, 5025).
WellKnownPort_DefaultVicp(port) == IF port \in {0, 1861} THEN 1861 ELSE 5025
WellKnownPort(port) == IF port \in {0, 5025} THEN 5025 ELSE 1861

\* lines 194 and 199: f"TCPIP::{ip}::{p}::SOCKET"
SocketForm(ip, p) == <<Txt("TCPIP"), ip, Str(p), Txt("SOCKET")>>

\* build_ethernet_resources(ip, port), lines 181-201.
build_ethernet_resources_SocketFirst(ip, port) ==
    IF port \in {0, 1861, 5025}
    THEN <<SocketForm(ip, WellKnownPort(port))>> \o StructuredForms(ip)
    ELSE <<SocketForm(ip, port)>> \o StructuredForms(ip)
build_ethernet_resources(ip, port) ==
    IF port \in {0, 1861, 5025}
    THEN StructuredForms(ip) \o <<SocketForm(ip, WellKnownPort(port))>>
    ELSE StructuredForms(ip) \o <<SocketForm(ip, port)>>

\* The text of a resource: its fields joined by "::".
RECURSIVE ResourceString(_)
ResourceString(res) ==
    IF Len(res) = 1 THEN res[1] ELSE res[1] \o Txt("::") \o ResourceString(Tail(res))

\* resource_str.endswith("::" + suffix)
EndsWithField(res, suffix) == Len(res) >= 2 /\ res[Len(res)] = suffix

\* resource_str[:-len(suffix)] + other
ReplaceLastField(res, other) == [res EXCEPT ![Len(res)] = other]

\* lines 272-276: the address and its alternate suffix spelling.
SuffixVariants(res) ==
    IF EndsWithField(res, Txt("INSTR")) THEN <<res, ReplaceLastField(res, Txt("INST"))>>
    ELSE IF EndsWithField(res, Txt("INST")) THEN <<res, ReplaceLastField(res, Txt("INSTR"))>>
    ELSE <<res>>

\* line 316: "TCPIP::" in resource_str.upper()
IsTcpip(res) == res # <<>> /\ Contains(Upper(ResourceString(res)), Txt("TCPIP::"))

\* line 317: resource_str.split("::")[1]
HostOf(res) == res[2]

(***************************************************************************)
(* Validation and dispatch                                                 *)
(***************************************************************************)
\* The test of lines 312, 330 and 518 negated, without the size comparison.
Accepts_NoSizeCheck(data) == Truthy(data)
\* not (not image_data or len(image_data) < 100)
Accepts(data) == Truthy(data) /\ ~(Len(data) < MIN_IMAGE)

\* line 316: the condition of the raw VICP fallback, with the transport test inverted.
NeedsVicpFallback_NotTcpip(v, res) == v = "LECROY" /\ ~IsTcpip(res)
\* line 316
NeedsVicpFallback(v, res) == v = "LECROY" /\ IsTcpip(res)

\* lines 327-332: a failed raw VICP fallback returns False (here: tries again).
AfterRawFailure_Retry == "d_close"
\* lines 327-332: a failed raw VICP fallback returns False through the finally block.
AfterRawFailure == "s_finally"

\* scope.close() of lines 321 and 347 (here: the session stays open).
SessionAfterClose_Leak(st) == st
\* scope.close() of lines 321 and 347.
SessionAfterClose(st) == "closed"

\* lines 716-719 without the break.
LoopContinues_NoBreak(succ, i, n) == i < n
\* lines 716-719: the loop goes on while no attempt succeeded and candidates remain.
LoopContinues(succ, i, n) == succ # "True" /\ i < n

\* line 374: the handlers tried for an unknown vendor.
UnknownOrder == <<"_dump_keysight", "_dump_rigol", "_dump_lecroy", "_dump_tektronix">>

\* line 377
LoopAccepts(data) == Truthy(data) /\ Len(data) > MIN_IMAGE

\* HandlerOf without the SIGLENT alternative of line 369.
HandlerOf_NoSiglent(v) ==
    IF v = "LECROY" THEN "_dump_lecroy"
    ELSE IF v = "TEKTRONIX" THEN "_dump_tektronix"
    ELSE IF v \in {"KEYSIGHT", "AGILENT"} THEN "_dump_keysight"
    ELSE IF v \in {"RIGOL"} THEN "_dump_rigol"
    ELSE ""
\* lines 363-370: the handler of a known vendor tag, "" when there is none.
HandlerOf(v) ==
    IF v = "LECROY" THEN "_dump_lecroy"
    ELSE IF v = "TEKTRONIX" THEN "_dump_tektronix"
    ELSE IF v \in {"KEYSIGHT", "AGILENT"} THEN "_dump_keysight"
    ELSE IF v \in {"RIGOL", "SIGLENT"} THEN "_dump_rigol"
    ELSE ""

(***************************************************************************)
(* Environment: what the instrument and the libraries may answer           *)
(***************************************************************************)
Blob(n) == [i \in 1..n |-> 66]

\* "#3120" followed by 120 bytes
IeeeBlock == <<35, 51, 49, 50, 48>> \o Blob(120)

DataSamples == {<<>>, Blob(99), Blob(100), Blob(101), IeeeBlock}

IdnSamples == {
    <<>>,
    <<32, 76, 101, 67, 114, 111, 121, 44, 87, 82, 13>>,   \* " LeCroy,WR\r"
    <<116, 101, 108, 101, 100, 121, 110, 101>>,           \* "teledyne"
    <<84, 69, 75, 44, 84, 68, 83>>,                       \* "TEK,TDS"
    <<65, 103, 105, 108, 101, 110, 116>>,                 \* "Agilent"
    <<83, 105, 103, 108, 101, 110, 116>>,                 \* "Siglent"
    <<82, 38, 83>>,                                       \* "R&S"
    <<65, 67, 77, 69>> }                                  \* "ACME"

\* Replies to "*IDN?" on the raw socket: the same texts as bytes, and one
\* reply with a non-ASCII byte.
IdnRawSamples == IdnSamples \cup { <<76, 69, 67, 82, 79, 89, 200>> }

UsbResources == {
    <<Txt("USB0"), Txt("0x05FF"), Txt("INSTR")>>,
    <<Txt("USB0"), Txt("0x05FF"), Txt("INST")>>,
    <<Txt("USB0"), Txt("0x05FF"), Txt("RAW")>> }

Unset == <<-3>>
Raised == <<-2>>

(***************************************************************************)
(* _vicp_next_seq and _vicp_send                                           *)
(***************************************************************************)
\* _vicp_next_seq, line 392: the value stored in _VICP_SEQ[0] and returned.
_vicp_next_seq_Mod256(s) == (s + 1) % 256
_vicp_next_seq(s) == (s % 255) + 1

\* The counter after n calls of _vicp_next_seq.
RECURSIVE SeqAfter(_, _)
SeqAfter(s, n) == IF n = 0 THEN s ELSE SeqAfter(_vicp_next_seq(s), n - 1)

\* cmd.encode("ascii"): one byte for each code point below 128, and
\* UnicodeEncodeError for a command with any other code point.
EncodeAscii(c) ==
    IF \A i \in 1..Len(c) : c[i] < 128 THEN [i \in 1..Len(c) |-> c[i]] ELSE Raised

\* line 397: op = 0x80 | 0x40 | 0x01 (DATA, REMOTE, EOI).
VICP_SEND_OP_NoData == 64 + 1
VICP_SEND_OP == 128 + 64 + 1

\* lines 398-400: hdr + payload as given to sock.sendall, for the sequence
\* number sq returned by _vicp_next_seq.
SentBytes(c, sq) == PackHdr(VICP_SEND_OP, 1, sq, 0, Len(EncodeAscii(c))) \o EncodeAscii(c)

\* The commands of vicp_capture and _dump_lecroy_vicp_raw.
CMD_IDN == <<42, 73, 68, 78, 63>>   \* "*IDN?"
CMD_SCREEN_DUMP == <<83, 67, 82, 69, 69, 78, 95, 68, 85, 77, 80>>   \* "SCREEN_DUMP"
\* "HCSU DEV,BMP,FORMAT,PORTRAIT,BCKG,WHITE,DEST,REMOTE,PORT,NET"
CMD_HCSU ==
    <<72, 67, 83, 85, 32, 68, 69, 86, 44, 66, 77, 80, 44, 70, 79, 82,
       77, 65, 84, 44, 80, 79, 82, 84, 82, 65, 73, 84, 44, 66, 67, 75,
       71, 44, 87, 72, 73, 84, 69, 44, 68, 69, 83, 84, 44, 82, 69, 77,
       79, 84, 69, 44, 80, 79, 82, 84, 44, 78, 69, 84>>
\* A command that is not ASCII ("\u00e9").
CMD_NON_ASCII == <<233>>
Commands == {CMD_IDN, CMD_SCREEN_DUMP, CMD_HCSU, CMD_NON_ASCII}

(***************************************************************************)
(* DISPLAY_COLOR                                                           *)
(***************************************************************************)
K_WHITE == <<87, 72, 73, 84, 69>>   \* "WHITE"
K_BLACK == <<66, 76, 65, 67, 75>>   \* "BLACK"

\* DISPLAY_COLOR.upper() in ("WHITE", "BLACK")
ValidColor(dc) == Upper(dc) \in {K_WHITE, K_BLACK}

\* lines 318 and 479, and lines 358-361: the colour given to the handlers.
CoerceColor(dc) == IF ValidColor(dc) THEN Upper(dc) ELSE K_WHITE

\* f"HCSU DEV,BMP,FORMAT,PORTRAIT,BCKG,{color},DEST,REMOTE,PORT,NET"
HcsuCommand(c) ==
    <<72, 67, 83, 85, 32, 68, 69, 86, 44, 66, 77, 80, 44, 70, 79, 82, 77, 65, 84, 44, 80, 79, 82, 84, 82, 65, 73, 84, 44, 66, 67, 75, 71, 44>>
        \o c \o <<44, 68, 69, 83, 84, 44, 82, 69, 77, 79, 84, 69, 44, 80, 79, 82, 84, 44, 78, 69, 84>>

\* The values of DISPLAY_COLOR considered: "WHITE", "black" and "Green".
ColorSamples == {K_WHITE, <<98, 108, 97, 99, 107>>, <<71, 114, 101, 101, 110>>}

(***************************************************************************)
(* State                                                                   *)
(***************************************************************************)
VARIABLES
    frames,     \* the frames the peer sends, in order (environment)
    wire,       \* the bytes in the socket: those earlier calls left unread, then the peer's
    pos,        \* bytes of wire returned by sock.recv to the current call
    rpc,        \* position in _vicp_recv: "idle", "hdr", "payload", "done"
    buf,        \* recv_exact: buf
    need,       \* recv_exact: n
    op,         \* _vicp_recv: op of the frame being read
    length,     \* _vicp_recv: length of the frame being read
    image,      \* _vicp_recv: image
    rend,       \* how the loop ended: "", "eoi", "closed", "timeout"
    result,     \* value returned by _vicp_recv
    split,      \* some sock.recv of this call returned fewer bytes than asked for
    CONNECTION_TYPE,  \* user configuration (line 44)
    SCOPE_PORT,       \* user configuration (line 49)
    USB_RESOURCE,     \* user configuration (line 56)
    DISPLAY_COLOR,    \* user configuration (line 67)
    pc,         \* position of the script in main / vicp_capture / scpi_capture
    success,    \* main: success ("unset", "True", "False")
    candidates, \* main: candidates
    ci,         \* main: index of res in candidates
    resource_str,   \* scpi_capture: resource_str
    variants,   \* scpi_capture: candidates (the suffix variants)
    vi,         \* scpi_capture: index of attempt in its candidates
    rm,         \* the VISA resource manager: "none", "open", "closed"
    scope,      \* the VISA session: "none", "open", "closed"
    sock,       \* the raw socket: "none", "open", "closed"
    sock_addr,  \* the (host, port) of the last socket.create_connection
    idn,        \* idn
    vendor,     \* vendor
    image_data, \* image_data
    fi,         \* _screen_dump: index of fn in the loop of line 374
    ret,        \* value being returned through a finally block
    invoked,    \* handlers called by the running _screen_dump, in order
    outcomes,   \* what each of them returned (Raised when it raised)
    dump_data,  \* what _screen_dump returned to scpi_capture (Unset before)
    dg_tried,   \* this scpi_capture call tried the raw VICP connection
    save_failed,    \* _save_image raised in this call
    ndowngrades,    \* raw VICP fallbacks tried since main started
    attempts,   \* the capture attempts started, in order
    results,    \* what each finished attempt returned
    saved,      \* the images handed to _save_image that were written
    color,      \* color of vicp_capture, scpi_capture and _screen_dump
    warnings,   \* "[WARN] Unknown DISPLAY_COLOR" lines printed (line 360)
    _VICP_SEQ,  \* _VICP_SEQ[0], the module-level counter of line 389
    cmd,        \* _vicp_send: cmd of the last call
    sent,       \* what the last _vicp_send gave to sock.sendall (Raised when it raised)
    peer,       \* what the peer did with the last command: "", "echo", "reply"
    reply,      \* the payload of the peer's reply frame
    wrapped,    \* _VICP_SEQ went from 255 back to 1
    be_call,    \* build_ethernet_resources: (ip, port) of the last call
    be_resources,       \* build_ethernet_resources: the list it returned
    be_prev_call,       \* (ip, port) of the call before the last
    be_prev_resources,  \* the list that call returned
    usb_env,    \* rm.list_resources(pattern) for each pattern (environment)
    usb_pc,     \* position in find_usb_resource: "idle", "loop", "ret", "done"
    usb_i,      \* find_usb_resource: index of pattern in the tuple of line 210
    usb_resources,      \* find_usb_resource: resources
    usb_queried,        \* the patterns given to rm.list_resources, in order
    usb_ret,    \* value returned by find_usb_resource
    st_data,    \* _strip_ieee_block: data as passed by the caller
    st_ret,     \* value returned by _strip_ieee_block (Unset before the call)
    dh_fn,      \* the vendor handler called on its own ("" before the call)
    dh_color,   \* its argument color
    dh_pc,      \* position in the handler
    dh_written, \* the messages written to the instrument, in order
    dh_term,    \* scope.read_termination
    dh_reads,   \* the answers read from the instrument, in order
    dh_ret,     \* value returned by the handler (Unset before it returns)
    sa_subnets, \* scan_all_ethernet: the hosts of each subnet given, in order
    sa_pc,      \* position in scan_all_ethernet: "idle", "scan", "done"
    sa_i,       \* scan_all_ethernet: index of the subnet being scanned
    sa_all_results,     \* scan_all_ethernet: all_results
    sa_seen_ips,        \* scan_all_ethernet: seen_ips
    se_pc,      \* position in scan_ethernet: "idle", "submit", "collect", "returned"
    se_hosts,   \* scan_ethernet: hosts
    se_futures, \* scan_ethernet: the futures submitted, in order, with their state
    se_results, \* scan_ethernet: results
    se_done,    \* scan_ethernet: done
    se_found    \* scan_ethernet: found

rvars == <<frames, wire, pos, rpc, buf, need, op, length, image, rend, result, split>>

cfg == <<CONNECTION_TYPE, SCOPE_PORT, USB_RESOURCE, DISPLAY_COLOR>>
mainv == <<success, candidates, ci>>
conn == <<rm, scope, sock>>
loc == <<resource_str, variants, vi, idn, vendor, image_data, fi, ret>>
ghost == <<invoked, outcomes, dump_data, dg_tried, save_failed>>
hist == <<ndowngrades, attempts, results, saved>>

colv == <<color, warnings>>
cvars == <<cfg, pc, mainv, conn, sock_addr, loc, ghost, hist, colv>>

sobs == <<cmd, sent, peer, reply, wrapped>>
svars == <<_VICP_SEQ, sobs>>
bvars == <<be_call, be_resources, be_prev_call, be_prev_resources>>
uvars == <<usb_env, usb_pc, usb_i, usb_resources, usb_queried, usb_ret>>
hvars == <<dh_fn, dh_color, dh_pc, dh_written, dh_term, dh_reads, dh_ret>>
nvars == <<sa_subnets, sa_pc, sa_i, sa_all_results, sa_seen_ips,
           se_pc, se_hosts, se_futures, se_results, se_done, se_found>>
pvars == <<st_data, st_ret, hvars, nvars>>
ovars == <<bvars, uvars, pvars>>
xvars == <<svars, ovars>>

vars == <<rvars, cvars, xvars>>

(***************************************************************************)
(* _vicp_recv                                                              *)
(***************************************************************************)
\* lines 434-435: only DATA frames contribute to the image.
AppendPayload_NoDataCheck(img, o, payload) == img \o payload
AppendPayload(img, o, payload) == IF IsData(o) THEN img \o payload ELSE img

\* lines 442-449: the value returned when a read fails.
OnReadFailure_Partial(img, partial) == img \o partial
OnReadFailure(img, partial) == img

\* End of one loop iteration (lines 437-441) with the frame's op and the image.
\* The frame count frame_n (line 437) goes to the progress messages of lines
\* 438, 444 and 447 only; messages and the count are not part of the state.
FrameDone(o, img) ==
    /\ image' = img
    /\ buf' = <<>>
    /\ IF IsEoi(o)
       THEN /\ rpc' = "done"
            /\ rend' = "eoi"
            /\ result' = img
            /\ need' = 0
       ELSE /\ rpc' = "hdr"
            /\ need' = _VICP_HLEN
            /\ UNCHANGED <<rend, result>>

\* line 421, keeping the last chunk only.
BufExtend_LastChunk(b, chunk) == chunk
\* line 421: buf.extend(chunk)
BufExtend(b, chunk) == b \o chunk

\* sock.recv(n - len(buf)) returns k >= 1 bytes; the code runs up to the next recv.
RecvChunk(k) ==
    /\ rpc \in {"hdr", "payload"}
    /\ k \in 1..Min(need - Len(buf), Len(wire) - pos)
    /\ pos' = pos + k
    /\ split' = (split \/ k < need - Len(buf))
    /\ LET nbuf == BufExtend(buf, SubSeq(wire, pos + 1, pos + k)) IN
       IF Len(nbuf) < need
       THEN /\ buf' = nbuf
            /\ UNCHANGED <<rpc, need, op, length, image, rend, result>>
       ELSE IF rpc = "hdr"
            THEN /\ op' = UnpackOp(nbuf)
                 /\ length' = UnpackLength(nbuf)
                 /\ IF UnpackLength(nbuf) # 0
                    THEN /\ rpc' = "payload"
                         /\ need' = UnpackLength(nbuf)
                         /\ buf' = <<>>
                         /\ UNCHANGED <<image, rend, result>>
                    ELSE FrameDone(UnpackOp(nbuf), image)
            ELSE /\ UNCHANGED <<op, length>>
                 /\ FrameDone(op, AppendPayload(image, op, nbuf))
    /\ UNCHANGED <<frames, wire, cvars, xvars>>

\* A read fails: the handlers of lines 442-448 fall through to the return.
ReadFails(how) ==
    /\ rpc \in {"hdr", "payload"}
    /\ rpc' = "done"
    /\ rend' = how
    /\ result' = OnReadFailure(image, buf)
    /\ UNCHANGED <<frames, wire, pos, buf, need, op, length, image, split, cvars, xvars>>

\* sock.recv returns b"": recv_exact raises ConnectionError (lines 419-420).
RecvClosed == ReadFails("closed")

\* sock.recv raises socket.timeout, an OSError.
RecvTimeout == ReadFails("timeout")

\* _vicp_recv is entered (lines 424-427).
RecvStart ==
    /\ rpc = "idle"
    /\ rpc' = "hdr"
    /\ need' = _VICP_HLEN
    /\ buf' = <<>>
    /\ image' = <<>>
    /\ split' = FALSE
    /\ UNCHANGED <<frames, wire, pos, op, length, rend, result, cvars, xvars>>

\* The script before main runs.
CaptureIdle ==
    /\ pc = "m_start"
    /\ success = "unset"
    /\ candidates = <<>>
    /\ ci = 0
    /\ resource_str = <<>>
    /\ variants = <<>>
    /\ vi = 0
    /\ rm = "none"
    /\ scope = "none"
    /\ sock = "none"
    /\ sock_addr = <<<<>>, 0>>
    /\ idn = <<>>
    /\ vendor = ""
    /\ image_data = Unset
    /\ fi = 0
    /\ ret = ""
    /\ invoked = <<>>
    /\ outcomes = <<>>
    /\ dump_data = Unset
    /\ dg_tried = FALSE
    /\ save_failed = FALSE
    /\ ndowngrades = 0
    /\ attempts = <<>>
    /\ results = <<>>
    /\ saved = <<>>
    /\ color = <<>>
    /\ warnings = 0

\* build_ethernet_resources was not called yet.
BuildIdle ==
    /\ be_call = <<>>
    /\ be_resources = <<>>
    /\ be_prev_call = <<>>
    /\ be_prev_resources = <<>>

\* find_usb_resource was not called yet.
UsbIdle ==
    /\ usb_env = <<>>
    /\ usb_pc = "idle"
    /\ usb_i = 0
    /\ usb_resources = <<>>
    /\ usb_queried = <<>>
    /\ usb_ret = Unset

\* _strip_ieee_block was not called.
StripIdle ==
    /\ st_data = <<>>
    /\ st_ret = Unset

\* No vendor handler was called on its own.
DumpIdle ==
    /\ dh_fn = ""
    /\ dh_color = ""
    /\ dh_pc = "idle"
    /\ dh_written = <<>>
    /\ dh_term = "\n"
    /\ dh_reads = <<>>
    /\ dh_ret = Unset

\* scan_all_ethernet was not called.
ScanIdle ==
    /\ sa_subnets = <<>>
    /\ sa_pc = "idle"
    /\ sa_i = 0
    /\ sa_all_results = <<>>
    /\ sa_seen_ips = {}
    /\ se_pc = "idle"
    /\ se_hosts = <<>>
    /\ se_futures = <<>>
    /\ se_results = <<>>
    /\ se_done = 0
    /\ se_found = 0

\* The functions checked on their own were not called.
HarnessIdle == StripIdle /\ DumpIdle /\ ScanIdle

\* _vicp_recv is not running and the peer has sent nothing.
RecvIdle ==
    /\ frames = <<>>
    /\ wire = <<>>
    /\ pos = 0
    /\ rpc = "idle"
    /\ buf = <<>>
    /\ need = 0
    /\ op = 0
    /\ length = 0
    /\ image = <<>>
    /\ rend = ""
    /\ result = <<>>
    /\ split = FALSE

\* The module after import: no frame was sent yet (line 389).
SendIdle ==
    /\ _VICP_SEQ = 0
    /\ cmd = <<>>
    /\ sent = Unset
    /\ peer = ""
    /\ reply = <<>>
    /\ wrapped = FALSE

InitRecv ==
    /\ CONNECTION_TYPE = "ETHERNET"
    /\ SCOPE_PORT = 0
    /\ USB_RESOURCE = <<>>
    /\ DISPLAY_COLOR = K_WHITE
    /\ CaptureIdle
    /\ SendIdle
    /\ BuildIdle
    /\ UsbIdle
    /\ HarnessIdle
    /\ frames \in FrameSeqs
    /\ wire = Wire(frames)
    /\ pos = 0
    /\ rpc = "idle"
    /\ buf = <<>>
    /\ need = 0
    /\ op = 0
    /\ length = 0
    /\ image = <<>>
    /\ rend = ""
    /\ result = <<>>
    /\ split = FALSE

NextRecv ==
    \/ RecvStart
    \/ \E k \in 1..(_VICP_HLEN + MaxPayload) : RecvChunk(k)
    \/ RecvClosed
    \/ RecvTimeout

SpecRecv == InitRecv /\ [][NextRecv]_vars

(***************************************************************************)
(* _vicp_recv with a peer that may go on sending                           *)
(***************************************************************************)
\* The frames a peer sends after the first ones: any frame that adds nothing
\* to the image (no DATA flag, or no payload), with or without EOI.
MoreFrames ==
    {f \in [op : PeerOps, seq : {1}, payload : Payloads] : IsData(f.op) => f.payload = <<>>}

\* All bytes delivered so far were read and a header is awaited (line 429):
\* the peer sends one more frame.
PeerMore(f) ==
    /\ rpc = "hdr" /\ buf = <<>>
    /\ pos = Len(wire)
    /\ wire' = FrameBytes(f)
    /\ pos' = 0
    /\ UNCHANGED <<frames, rpc, buf, need, op, length, image, rend, result, split,
                   cvars, xvars>>

\* The steps of _vicp_recv itself: each sock.recv returns with data, with
\* b"" or with socket.timeout, and the code runs on.
RecvStep ==
    \/ RecvStart
    \/ \E k \in 1..(_VICP_HLEN + MaxPayload) : RecvChunk(k)
    \/ RecvClosed
    \/ RecvTimeout

NextRecvLive ==
    \/ RecvStep
    \/ \E f \in MoreFrames : PeerMore(f)

\* Every read returns within its timeout, so _vicp_recv always takes its
\* next step; nothing is assumed about the peer.
SpecRecvLive == InitRecv /\ [][NextRecvLive]_vars /\ WF_vars(RecvStep)

(***************************************************************************)
(* _vicp_send                                                              *)
(***************************************************************************)
\* The calls _vicp_send(sock, c) for the ASCII commands c of cs, in order
\* (cs is not empty): the counter advances once for each, and the bytes of the
\* last one are the last given to sock.sendall.
SendAll(cs) ==
    LET n == Len(cs) IN
    /\ _VICP_SEQ' = SeqAfter(_VICP_SEQ, n)
    /\ cmd' = cs[n]
    /\ sent' = SentBytes(cs[n], SeqAfter(_VICP_SEQ, n))
    /\ wrapped' = (wrapped \/ _VICP_SEQ + n > 255)

\* _vicp_send(sock, c), lines 395-400: encode raises before the counter moves;
\* otherwise the counter advances and hdr + payload goes to sock.sendall.
VicpSend(c) ==
    IF EncodeAscii(c) = Raised
    THEN /\ cmd' = c
         /\ sent' = Raised
         /\ UNCHANGED <<_VICP_SEQ, wrapped>>
    ELSE SendAll(<<c>>)

\* The module after import and a socket in which the peer has put at most
\* one frame; no frame was sent yet.
InitSend ==
    /\ CONNECTION_TYPE = "ETHERNET"
    /\ SCOPE_PORT = 0
    /\ USB_RESOURCE = <<>>
    /\ DISPLAY_COLOR = K_WHITE
    /\ CaptureIdle
    /\ SendIdle
    /\ BuildIdle
    /\ UsbIdle
    /\ HarnessIdle
    /\ frames \in FrameSeqs /\ Len(frames) <= 1
    /\ wire = Wire(frames)
    /\ pos = 0
    /\ rpc = "idle"
    /\ buf = <<>>
    /\ need = 0
    /\ op = 0
    /\ length = 0
    /\ image = <<>>
    /\ rend = ""
    /\ result = <<>>
    /\ split = FALSE

\* One call of _vicp_send after another, whatever the socket holds unread.
NextSend ==
    \E c \in Commands :
        /\ VicpSend(c)
        /\ UNCHANGED <<rvars, cvars, ovars, peer, reply>>

SpecSend == InitSend /\ [][NextSend]_vars

(***************************************************************************)
(* build_ethernet_resources                                                *)
(***************************************************************************)
\* The arguments considered: hosts, and ports around the well-known ones.
Hosts == {Txt("10.0.0.5"), Txt("192.168.1.20"), Txt("scope.local")}
Ports == {0, 1, 80, 1861, 4000, 5024, 5025, 65535}

\* One call build_ethernet_resources(ip, port); the call before is remembered.
BuildCall(ip, port) ==
    /\ be_prev_call' = be_call
    /\ be_prev_resources' = be_resources
    /\ be_call' = <<ip, port>>
    /\ be_resources' = build_ethernet_resources(ip, port)
    /\ UNCHANGED <<rvars, cvars, svars, uvars, pvars>>

InitBuild ==
    /\ CONNECTION_TYPE = "ETHERNET"
    /\ SCOPE_PORT = 0
    /\ USB_RESOURCE = <<>>
    /\ DISPLAY_COLOR = K_WHITE
    /\ CaptureIdle
    /\ RecvIdle
    /\ SendIdle
    /\ BuildIdle
    /\ UsbIdle
    /\ HarnessIdle

NextBuild == \E ip \in Hosts, port \in Ports : BuildCall(ip, port)

SpecBuild == InitBuild /\ [][NextBuild]_vars

(***************************************************************************)
(* find_usb_resource                                                       *)
(***************************************************************************)
\* line 210: the patterns, in the order they are tried.
USB_PATTERNS == <<"USB?*::INSTR", "USB?*::INST", "USB?*">>

\* What rm.list_resources(pattern) can do: raise, or return up to MaxFound
\* addresses (the same address may be listed twice).
MaxFound == 2
FoundLists == UNION {[1..n -> UsbResources] : n \in 0..MaxFound}
ListOutcomes ==
    {[raises |-> TRUE, found |-> <<>>]} \cup {[raises |-> FALSE, found |-> f] : f \in FoundLists}

\* lines 214-216: each address of found not yet in resources is appended.
RECURSIVE AppendNew(_, _)
AppendNew(resources, found) ==
    IF found = <<>> THEN resources
    ELSE AppendNew(IF \E i \in 1..Len(resources) : resources[i] = Head(found)
                   THEN resources ELSE Append(resources, Head(found)),
                   Tail(found))

\* lines 219-220: if resources: break.
BreaksLoop_Never(resources) == FALSE
BreaksLoop(resources) == Len(resources) > 0

\* find_usb_resource is entered (line 209).
UsbCall ==
    /\ usb_pc = "idle"
    /\ usb_pc' = "loop"
    /\ usb_i' = 1
    /\ usb_resources' = <<>>
    /\ usb_queried' = <<>>
    /\ UNCHANGED <<rvars, cvars, svars, bvars, pvars, usb_env, usb_ret>>

\* One iteration of the loop of lines 210-220.
UsbIter ==
    /\ usb_pc = "loop"
    /\ usb_queried' = Append(usb_queried, USB_PATTERNS[usb_i])
    /\ LET out == usb_env[usb_i]
           res == IF out.raises THEN usb_resources
                  ELSE AppendNew(usb_resources, out.found) IN
       /\ usb_resources' = res
       /\ IF BreaksLoop(res) \/ usb_i = Len(USB_PATTERNS)
          THEN usb_pc' = "ret" /\ UNCHANGED usb_i
          ELSE usb_i' = usb_i + 1 /\ UNCHANGED usb_pc
    /\ UNCHANGED <<rvars, cvars, svars, bvars, pvars, usb_env, usb_ret>>

\* lines 222-230: None when resources is empty, resources[0] otherwise.
UsbReturn ==
    /\ usb_pc = "ret"
    /\ usb_pc' = "done"
    /\ usb_ret' = IF Len(usb_resources) = 0 THEN None ELSE usb_resources[1]
    /\ UNCHANGED <<rvars, cvars, svars, bvars, pvars, usb_env, usb_i, usb_resources, usb_queried>>

InitUsb ==
    /\ CONNECTION_TYPE = "USB"
    /\ SCOPE_PORT = 0
    /\ USB_RESOURCE = <<>>
    /\ DISPLAY_COLOR = K_WHITE
    /\ CaptureIdle
    /\ RecvIdle
    /\ SendIdle
    /\ BuildIdle
    /\ HarnessIdle
    /\ usb_env \in [1..Len(USB_PATTERNS) -> ListOutcomes]
    /\ usb_pc = "idle"
    /\ usb_i = 0
    /\ usb_resources = <<>>
    /\ usb_queried = <<>>
    /\ usb_ret = Unset

NextUsb ==
    \/ UsbCall
    \/ UsbIter
    \/ UsbReturn

SpecUsb == InitUsb /\ [][NextUsb]_vars

(***************************************************************************)
(* _strip_ieee_block on its own                                            *)
(***************************************************************************)
\* The inputs considered: every byte string of up to MaxStripLen bytes over
\* "#", "0", "1", "2", "B", "-" and " ", and three long ones.
MaxStripLen == 5
StripBytes == {35, 48, 49, 50, 66, 45, 32}
TruncatedBlock == <<35, 51, 49, 50, 48>> \o Blob(50)
StripInputs ==
    UNION {[1..n -> StripBytes] : n \in 0..MaxStripLen}
        \cup {IeeeBlock, TruncatedBlock, Blob(100)}

\* One call _strip_ieee_block(st_data).
StripCall ==
    /\ st_ret = Unset
    /\ st_ret' = _strip_ieee_block(st_data)
    /\ UNCHANGED <<rvars, cvars, svars, bvars, uvars, hvars, nvars, st_data>>

InitStrip ==
    /\ CONNECTION_TYPE = "ETHERNET"
    /\ SCOPE_PORT = 0
    /\ USB_RESOURCE = <<>>
    /\ DISPLAY_COLOR = K_WHITE
    /\ CaptureIdle
    /\ RecvIdle
    /\ SendIdle
    /\ BuildIdle
    /\ UsbIdle
    /\ DumpIdle
    /\ ScanIdle
    /\ st_data \in StripInputs
    /\ st_ret = Unset

NextStrip == StripCall

SpecStrip == InitStrip /\ [][NextStrip]_vars

(***************************************************************************)
(* _dump_keysight and _dump_rigol                                          *)
(***************************************************************************)
\* The answers of the instrument considered: byte strings of these lengths.
ReplyLengths == {0, 1, 2, 9, 10, 11, 99, 100, 101}
DumpReplies == {Blob(n) : n \in ReplyLengths}

\* line 570
KeysightScheme(c) == IF c = "WHITE" THEN "INKS" ELSE "SCR"
\* line 571
KeysightWrite(c) == ":DISP:DATA PNG," \o KeysightScheme(c) \o ",COL"
\* line 575
KeysightQuery(c) == ":DISP:DATA? PNG," \o KeysightScheme(c) \o ",COL"

\* line 592
RigolInvert(c) == IF c = "WHITE" THEN "OFF" ELSE "ON"
\* line 593
RigolQuery(c) == ":DISP:DATA? ON," \o RigolInvert(c) \o ",PNG"
\* line 599
RIGOL_LEGACY_QUERY == ":DISP:DATA?"

\* line 597, with the size of the validation in place of 10.
RigolNeedsLegacy_Below100(data) == ~Truthy(data) \/ Len(data) < MIN_IMAGE
\* line 597: if not data or len(data) < 10
RigolNeedsLegacy(data) == ~Truthy(data) \/ Len(data) < 10

\* _screen_dump calls fn(scope, c) with the colour it coerced.
DumpCall(fn, c) ==
    /\ dh_pc = "idle"
    /\ dh_fn' = fn
    /\ dh_color' = c
    /\ dh_pc' = IF fn = "_dump_keysight" THEN "k_write" ELSE "r_write"
    /\ UNCHANGED <<rvars, cvars, svars, bvars, uvars, nvars, st_data, st_ret,
                   dh_written, dh_term, dh_reads, dh_ret>>

\* An exception leaves the handler.
DumpRaises ==
    /\ dh_pc' = "done"
    /\ dh_ret' = Raised

\* _dump_keysight, lines 571-572: scope.write(...), which may raise.
KeysightWriteStep ==
    /\ dh_pc = "k_write"
    /\ \/ /\ dh_written' = Append(dh_written, KeysightWrite(dh_color))
          /\ dh_pc' = "k_query"
          /\ UNCHANGED dh_ret
       \/ /\ DumpRaises
          /\ UNCHANGED dh_written
    /\ UNCHANGED <<rvars, cvars, svars, bvars, uvars, nvars, st_data, st_ret,
                   dh_fn, dh_color, dh_term, dh_reads>>

\* _dump_keysight, lines 573-580: read_termination is set to None, the
\* binary-block query is written and its block read; an empty result becomes
\* b"".  Each of the three may raise, and what came before it stays done.
KeysightQueryStep ==
    /\ dh_pc = "k_query"
    /\ \/ \E d \in DumpReplies :
            /\ dh_term' = "None"
            /\ dh_written' = Append(dh_written, KeysightQuery(dh_color))
            /\ dh_reads' = Append(dh_reads, d)
            /\ dh_ret' = IF Truthy(d) THEN d ELSE <<>>
            /\ dh_pc' = "done"
       \/ /\ DumpRaises                           \* line 573 raises
          /\ UNCHANGED <<dh_term, dh_written, dh_reads>>
       \/ /\ DumpRaises                           \* the write of the query raises
          /\ dh_term' = "None"
          /\ UNCHANGED <<dh_written, dh_reads>>
       \/ /\ DumpRaises                           \* the read of the block raises
          /\ dh_term' = "None"
          /\ dh_written' = Append(dh_written, KeysightQuery(dh_color))
          /\ UNCHANGED dh_reads
    /\ UNCHANGED <<rvars, cvars, svars, bvars, uvars, nvars, st_data, st_ret, dh_fn, dh_color>>

\* _dump_rigol, lines 593-594 and 599-600: scope.write(...), which may raise.
RigolWriteStep ==
    /\ dh_pc \in {"r_write", "r_write2"}
    /\ \/ /\ dh_written' = Append(dh_written,
                    IF dh_pc = "r_write" THEN RigolQuery(dh_color) ELSE RIGOL_LEGACY_QUERY)
          /\ dh_pc' = IF dh_pc = "r_write" THEN "r_read" ELSE "r_read2"
          /\ UNCHANGED dh_ret
       \/ /\ DumpRaises
          /\ UNCHANGED dh_written
    /\ UNCHANGED <<rvars, cvars, svars, bvars, uvars, nvars, st_data, st_ret,
                   dh_fn, dh_color, dh_term, dh_reads>>

\* _dump_rigol, lines 595-597: read_termination is set to None, then the
\* first scope.read_raw() and the test on it.
RigolReadStep ==
    /\ dh_pc = "r_read"
    /\ \/ \E d \in DumpReplies :
            /\ dh_term' = "None"
            /\ dh_reads' = Append(dh_reads, d)
            /\ IF RigolNeedsLegacy(d)
               THEN dh_pc' = "r_write2" /\ UNCHANGED dh_ret
               ELSE dh_pc' = "done" /\ dh_ret' = d
       \/ /\ DumpRaises                           \* line 595 raises
          /\ UNCHANGED <<dh_term, dh_reads>>
       \/ /\ DumpRaises                           \* read_raw raises
          /\ dh_term' = "None"
          /\ UNCHANGED dh_reads
    /\ UNCHANGED <<rvars, cvars, svars, bvars, uvars, nvars, st_data, st_ret,
                   dh_fn, dh_color, dh_written>>

\* _dump_rigol, lines 601-602: the second scope.read_raw() and the return.
RigolRead2Step ==
    /\ dh_pc = "r_read2"
    /\ \/ \E d \in DumpReplies :
            /\ dh_reads' = Append(dh_reads, d)
            /\ dh_ret' = d
            /\ dh_pc' = "done"
       \/ /\ DumpRaises
          /\ UNCHANGED dh_reads
    /\ UNCHANGED <<rvars, cvars, svars, bvars, uvars, nvars, st_data, st_ret,
                   dh_fn, dh_color, dh_written, dh_term>>

InitDump ==
    /\ CONNECTION_TYPE = "ETHERNET"
    /\ SCOPE_PORT = 0
    /\ USB_RESOURCE = <<>>
    /\ DISPLAY_COLOR = K_WHITE
    /\ CaptureIdle
    /\ RecvIdle
    /\ SendIdle
    /\ BuildIdle
    /\ UsbIdle
    /\ HarnessIdle

NextDump ==
    \/ \E fn \in {"_dump_keysight", "_dump_rigol"}, c \in {"WHITE", "BLACK"} : DumpCall(fn, c)
    \/ KeysightWriteStep
    \/ KeysightQueryStep
    \/ RigolWriteStep
    \/ RigolReadStep
    \/ RigolRead2Step

SpecDump == InitDump /\ [][NextDump]_vars

(***************************************************************************)
(* scope_scanner.py: scan_ethernet and scan_all_ethernet                   *)
(***************************************************************************)
\* The subnets considered and list(network.hosts()) for each of them.
ScanSubnets == {"10.0.0.0/30", "10.0.0.0/31", "10.0.0.2/31", "10.0.0.1/32"}
NetworkHosts(cidr) ==
    CASE cidr = "10.0.0.0/30" -> <<"10.0.0.1", "10.0.0.2">>
      [] cidr = "10.0.0.0/31" -> <<"10.0.0.0", "10.0.0.1">>
      [] cidr = "10.0.0.2/31" -> <<"10.0.0.2", "10.0.0.3">>
      [] cidr = "10.0.0.1/32" -> <<"10.0.0.1">>

\* The lists of subnets given to scan_all_ethernet: up to MaxSubnets of them.
MaxSubnets == 2
SubnetLists == UNION {[1..n -> ScanSubnets] : n \in 0..MaxSubnets}

\* The threads of the pool (MAX_WORKERS, line 35, is 64).
PoolSize == 2

\* What scan_host(ip) returns (lines 218-239): None, or a result with the
\* first port of SCPI_PORTS that answered "*IDN?" (5025 or 1861).
NoResult == [found |-> FALSE, address |-> "", port |-> 0]
HostResults(ip) ==
    {NoResult} \cup {[found |-> TRUE, address |-> ip, port |-> p] : p \in {5025, 1861}}

\* line 284, without the test.
IsNewIp_Always(seen, r) == TRUE
\* line 284: if r["address"] not in seen_ips
IsNewIp(seen, r) == r.address \notin seen

\* lines 283-286: the loop over the results of one scan_ethernet call.
RECURSIVE MergeResults(_, _, _)
MergeResults(rs, all, seen) ==
    IF rs = <<>> THEN [all |-> all, seen |-> seen]
    ELSE IF IsNewIp(seen, Head(rs))
         THEN MergeResults(Tail(rs), Append(all, Head(rs)), seen \cup {Head(rs).address})
         ELSE MergeResults(Tail(rs), all, seen)

\* The positions of the futures in state st.
FuturesIn(st) == {k \in 1..Len(se_futures) : se_futures[k].st = st}

\* scan_ethernet(cidr) is entered, lines 245-254.
EnterScanEthernet(cidr) ==
    /\ se_hosts' = NetworkHosts(cidr)
    /\ se_futures' = <<>>
    /\ se_results' = <<>>
    /\ se_done' = 0
    /\ se_found' = 0
    /\ se_pc' = "submit"

\* scan_all_ethernet(subnets) is called, lines 280-283.
ScanAllCall ==
    /\ sa_pc = "idle"
    /\ sa_all_results' = <<>>
    /\ sa_seen_ips' = {}
    /\ IF sa_subnets = <<>>
       THEN /\ sa_pc' = "done"
            /\ UNCHANGED <<sa_i, se_pc, se_hosts, se_futures, se_results, se_done, se_found>>
       ELSE /\ sa_pc' = "scan"
            /\ sa_i' = 1
            /\ EnterScanEthernet(sa_subnets[1])
    /\ UNCHANGED <<rvars, cvars, svars, bvars, uvars, st_data, st_ret, hvars, sa_subnets>>

\* line 257: pool.submit(scan_host, str(h)) for the next host of hosts.
Submit ==
    /\ se_pc = "submit"
    /\ Len(se_futures) < Len(se_hosts)
    /\ se_futures' = Append(se_futures,
           [ip |-> se_hosts[Len(se_futures) + 1], st |-> "queued", res |-> NoResult])
    /\ se_pc' = IF Len(se_futures) + 1 = Len(se_hosts) THEN "collect" ELSE "submit"
    /\ UNCHANGED <<rvars, cvars, svars, bvars, uvars, st_data, st_ret, hvars,
                   sa_subnets, sa_pc, sa_i, sa_all_results, sa_seen_ips,
                   se_hosts, se_results, se_done, se_found>>

\* A free thread of the pool takes the call queued first.
WorkerStart ==
    /\ FuturesIn("queued") # {}
    /\ Cardinality(FuturesIn("running")) < PoolSize
    /\ LET k == CHOOSE q \in FuturesIn("queued") : \A o \in FuturesIn("queued") : q <= o
       IN se_futures' = [se_futures EXCEPT ![k].st = "running"]
    /\ UNCHANGED <<rvars, cvars, svars, bvars, uvars, st_data, st_ret, hvars,
                   sa_subnets, sa_pc, sa_i, sa_all_results, sa_seen_ips,
                   se_pc, se_hosts, se_results, se_done, se_found>>

\* scan_host(ip) returns in its thread and the future k is finished.
WorkerFinish(k) ==
    /\ k \in FuturesIn("running")
    /\ \E r \in HostResults(se_futures[k].ip) :
         se_futures' = [se_futures EXCEPT ![k].st = "finished", ![k].res = r]
    /\ UNCHANGED <<rvars, cvars, svars, bvars, uvars, st_data, st_ret, hvars,
                   sa_subnets, sa_pc, sa_i, sa_all_results, sa_seen_ips,
                   se_pc, se_hosts, se_results, se_done, se_found>>

\* lines 258-268: as_completed yields a finished future; one loop iteration.
Collect(k) ==
    /\ se_pc = "collect"
    /\ k \in FuturesIn("finished")
    /\ se_futures' = [se_futures EXCEPT ![k].st = "yielded"]
    /\ se_done' = se_done + 1
    /\ IF se_futures[k].res.found
       THEN /\ se_found' = se_found + 1
            /\ se_results' = Append(se_results, se_futures[k].res)
       ELSE UNCHANGED <<se_found, se_results>>
    /\ UNCHANGED <<rvars, cvars, svars, bvars, uvars, st_data, st_ret, hvars,
                   sa_subnets, sa_pc, sa_i, sa_all_results, sa_seen_ips,
                   se_pc, se_hosts>>

\* lines 256 and 270-271: every future was yielded, the pool is shut down and
\* scan_ethernet returns results.
ScanEthernetReturn ==
    /\ se_pc = "collect"
    /\ FuturesIn("yielded") = 1..Len(se_hosts)
    /\ se_pc' = "returned"
    /\ UNCHANGED <<rvars, cvars, svars, bvars, uvars, st_data, st_ret, hvars,
                   sa_subnets, sa_pc, sa_i, sa_all_results, sa_seen_ips,
                   se_hosts, se_futures, se_results, se_done, se_found>>

\* scan_all_ethernet, lines 282-287: the results of the scan are merged and
\* the next subnet is scanned, or all_results is returned.
ScanAllMerge ==
    /\ sa_pc = "scan" /\ se_pc = "returned"
    /\ LET m == MergeResults(se_results, sa_all_results, sa_seen_ips) IN
       /\ sa_all_results' = m.all
       /\ sa_seen_ips' = m.seen
    /\ IF sa_i < Len(sa_subnets)
       THEN /\ sa_i' = sa_i + 1
            /\ EnterScanEthernet(sa_subnets[sa_i + 1])
            /\ UNCHANGED sa_pc
       ELSE /\ sa_pc' = "done"
            /\ UNCHANGED <<sa_i, se_pc, se_hosts, se_futures, se_results, se_done, se_found>>
    /\ UNCHANGED <<rvars, cvars, svars, bvars, uvars, st_data, st_ret, hvars, sa_subnets>>

InitScan ==
    /\ CONNECTION_TYPE = "ETHERNET"
    /\ SCOPE_PORT = 0
    /\ USB_RESOURCE = <<>>
    /\ DISPLAY_COLOR = K_WHITE
    /\ CaptureIdle
    /\ RecvIdle
    /\ SendIdle
    /\ BuildIdle
    /\ UsbIdle
    /\ StripIdle
    /\ DumpIdle
    /\ sa_subnets \in SubnetLists
    /\ sa_pc = "idle"
    /\ sa_i = 0
    /\ sa_all_results = <<>>
    /\ sa_seen_ips = {}
    /\ se_pc = "idle"
    /\ se_hosts = <<>>
    /\ se_futures = <<>>
    /\ se_results = <<>>
    /\ se_done = 0
    /\ se_found = 0

NextScan ==
    \/ ScanAllCall
    \/ Submit
    \/ WorkerStart
    \/ \E k \in 1..Len(se_futures) : WorkerFinish(k)
    \/ \E k \in 1..Len(se_futures) : Collect(k)
    \/ ScanEthernetReturn
    \/ ScanAllMerge

SpecScan == InitScan /\ [][NextScan]_vars

(***************************************************************************)
(* Capture orchestration: main, vicp_capture, scpi_capture, _screen_dump   *)
(***************************************************************************)
\* The locals of a capture function go away when it returns.
ClearLocals ==
    /\ resource_str' = <<>>
    /\ variants' = <<>>
    /\ vi' = 0
    /\ idn' = <<>>
    /\ vendor' = ""
    /\ image_data' = Unset
    /\ fi' = 0
    /\ ret' = ""
    /\ invoked' = <<>>
    /\ outcomes' = <<>>
    /\ dump_data' = Unset
    /\ dg_tried' = FALSE
    /\ save_failed' = FALSE

\* A failed validation that line 316 answers with the raw VICP fallback.
FallbackDue ==
    /\ dump_data # Unset
    /\ (dump_data = None \/ Len(dump_data) < 100)
    /\ vendor = "LECROY"
    /\ IsTcpip(resource_str)

\* vicp_capture returns r to main (line 711).
VicpReturn(r) ==
    /\ success' = r
    /\ results' = Append(results, [ok |-> r = "True", due |-> FALSE, dg |-> FALSE])
    /\ pc' = "m_after_vicp"
    /\ ClearLocals

\* scpi_capture returns r to main (lines 691, 717).
ScpiReturn(r) ==
    /\ success' = r
    /\ results' = Append(results, [ok |-> r = "True", due |-> FallbackDue, dg |-> dg_tried])
    /\ pc' = "m_after_scpi"
    /\ ClearLocals

\* main calls scpi_capture(res, ...).
CallScpi(res) ==
    /\ resource_str' = res
    /\ rm' = "none"
    /\ scope' = "none"
    /\ sock' = "none"
    /\ attempts' = Append(attempts, res)
    /\ pc' = "s_openrm"

\* check_tcp_reachable, lines 168-176: the ports are tried in this order.
REACH_PORTS == <<1861, 5025, 80>>

\* check_tcp_reachable: the port of its last socket.create_connection, which
\* is the first port that accepts, or the last port tried when none does.
RECURSIVE LastProbed(_, _)
LastProbed(open, i) ==
    IF i = Len(REACH_PORTS) \/ REACH_PORTS[i] \in open THEN REACH_PORTS[i]
    ELSE LastProbed(open, i + 1)

\* main, lines 677-711 and 721-724.  CONNECTION_TYPE holds the upper-cased
\* configuration value.  USB path: _open_rm (line 681) is called outside any
\* try block, an empty USB_RESOURCE is replaced by what find_usb_resource
\* returns, and main exits when that is nothing (lines 684-688); then
\* scpi_capture is called.  Ethernet path: SCOPE_IP is a valid address
\* (validate_ip returns), USERNAME and PASSWORD are empty (line 700 skips
\* try_http_auth), check_tcp_reachable probes the ports and vicp_capture is
\* called whatever the probe found.  Any other CONNECTION_TYPE exits.
MStart ==
    /\ pc = "m_start"
    /\ IF CONNECTION_TYPE = "USB"
       THEN \/ /\ pc' = "crashed"                 \* _open_rm raises
               /\ UNCHANGED <<mainv, conn, loc, attempts, sock_addr>>
            \/ /\ USB_RESOURCE = <<>>             \* find_usb_resource: None
               /\ pc' = "exited"
               /\ UNCHANGED <<mainv, conn, loc, attempts, sock_addr>>
            \/ \E res \in (IF USB_RESOURCE = <<>> THEN UsbResources ELSE {USB_RESOURCE}) :
                 /\ candidates' = <<res>>
                 /\ ci' = 1
                 /\ CallScpi(res)
                 /\ UNCHANGED <<success, variants, vi, idn, vendor, image_data, fi, ret,
                                sock_addr>>
       ELSE IF CONNECTION_TYPE = "ETHERNET"
       THEN /\ \E open \in SUBSET {1861, 5025, 80} :
                 sock_addr' = <<SCOPE_IP, LastProbed(open, 1)>>
            /\ pc' = "v_connect"
            /\ attempts' = Append(attempts, <<Txt("VICP")>>)
            /\ UNCHANGED <<mainv, conn, loc>>
       ELSE /\ pc' = "exited"
            /\ UNCHANGED <<mainv, conn, loc, attempts, sock_addr>>
    /\ UNCHANGED <<rvars, xvars, cfg, colv, ghost, ndowngrades, results, saved>>

\* vicp_capture, lines 482-487: socket.create_connection((ip, 1861)).
VConnect ==
    /\ pc = "v_connect"
    /\ color' = CoerceColor(DISPLAY_COLOR)        \* line 479
    /\ sock_addr' = <<SCOPE_IP, VICP_PORT>>
    /\ \/ /\ sock' = "open"
          /\ pc' = "v_idn"
          /\ UNCHANGED <<mainv, loc, ghost, results>>
       \/ /\ VicpReturn("False")
          /\ UNCHANGED <<candidates, ci, sock>>
    /\ UNCHANGED <<rvars, xvars, cfg, warnings, rm, scope, ndowngrades, attempts, saved>>

\* line 499, going on whatever the vendor tag.
VicpProceeds_AnyVendor(v) == TRUE
\* line 499: vicp_capture goes on to the dump only when vendor is "LECROY".
VicpProceeds(v) == v = "LECROY"

\* vicp_capture, lines 491-501: "*IDN?" is sent and the reply classified.
VIdentify ==
    /\ pc = "v_idn"
    /\ SendAll(<<CMD_IDN>>)
    /\ \/ /\ ret' = "False"                       \* sock.sendall raises
          /\ pc' = "v_finally"
          /\ UNCHANGED <<idn, vendor>>
       \/ \E r \in IdnRawSamples :
            LET i == Strip(DecodeAscii(r)) IN
            /\ idn' = i
            /\ vendor' = detect_vendor(i)
            /\ IF ~VicpProceeds(detect_vendor(i))
               THEN ret' = "False" /\ pc' = "v_finally"
               ELSE ret' = ret /\ pc' = "v_dump"
    /\ UNCHANGED <<rvars, peer, reply, ovars, cfg, colv, sock_addr, mainv, conn, resource_str, variants, vi, image_data, fi,
                   ghost, hist>>

\* vicp_capture, lines 504-510: HCSU and SCREEN_DUMP are sent, the image received.
VDump ==
    /\ pc = "v_dump"
    /\ \/ /\ \E n \in 1..2 : SendAll(SubSeq(<<HcsuCommand(color), CMD_SCREEN_DUMP>>, 1, n))
          /\ ret' = "False"                       \* the n-th sock.sendall raises
          /\ UNCHANGED image_data
       \/ \E d \in DataSamples :
            /\ SendAll(<<HcsuCommand(color), CMD_SCREEN_DUMP>>)
            /\ image_data' = d
            /\ UNCHANGED ret
    /\ pc' = "v_finally"
    /\ UNCHANGED <<rvars, peer, reply, ovars, cfg, colv, sock_addr, mainv, conn, resource_str, variants, vi, idn, vendor, fi,
                   ghost, hist>>

\* vicp_capture, lines 515-516: finally sock.close().
VFinally ==
    /\ pc = "v_finally"
    /\ sock' = "closed"
    /\ IF ret = "False"
       THEN /\ VicpReturn("False")
            /\ UNCHANGED <<candidates, ci>>
       ELSE /\ pc' = "v_validate"
            /\ UNCHANGED <<mainv, loc, ghost, results>>
    /\ UNCHANGED <<rvars, xvars, cfg, colv, sock_addr, rm, scope, ndowngrades, attempts, saved>>

\* vicp_capture, lines 518-520.
VValidate ==
    /\ pc = "v_validate"
    /\ IF ~Accepts(image_data)
       THEN /\ VicpReturn("False")
            /\ UNCHANGED <<candidates, ci>>
       ELSE /\ pc' = "v_save"
            /\ UNCHANGED <<mainv, loc, ghost, results>>
    /\ UNCHANGED <<rvars, xvars, cfg, colv, sock_addr, conn, ndowngrades, attempts, saved>>

\* vicp_capture, lines 522-524: image_data is replaced by its stripped form,
\* then saved, outside any try block.
VSave ==
    /\ pc = "v_save"
    /\ \/ /\ saved' = Append(saved, [raw |-> image_data,
                                     img |-> _strip_ieee_block(image_data)])
          /\ VicpReturn("True")
          /\ UNCHANGED <<candidates, ci>>
       \/ /\ save_failed' = TRUE                  \* _save_image raises
          /\ pc' = "crashed"
          /\ image_data' = _strip_ieee_block(image_data)
          /\ UNCHANGED <<mainv, resource_str, variants, vi, idn, vendor, fi, ret,
                         invoked, outcomes, dump_data, dg_tried, results, saved>>
    /\ UNCHANGED <<rvars, xvars, cfg, colv, sock_addr, conn, ndowngrades, attempts>>

\* main, lines 714-717: after vicp_capture.
MAfterVicp ==
    /\ pc = "m_after_vicp"
    /\ IF success = "True"
       THEN /\ pc' = "m_result"
            /\ UNCHANGED <<candidates, ci, conn, resource_str, attempts>>
       ELSE /\ candidates' = build_ethernet_resources(SCOPE_IP, SCOPE_PORT)
            /\ ci' = 1
            /\ CallScpi(build_ethernet_resources(SCOPE_IP, SCOPE_PORT)[1])
    /\ UNCHANGED <<rvars, xvars, cfg, colv, sock_addr, success, variants, vi, idn, vendor, image_data, fi, ret,
                   ghost, ndowngrades, results, saved>>

\* scpi_capture, line 266, and _open_rm: the system backend, else pyvisa-py,
\* else the exception of ResourceManager("@py") leaves scpi_capture.
SOpenRm ==
    /\ pc = "s_openrm"
    /\ \E backend \in {"system", "py", "raise"} :
         IF backend = "raise"
         THEN /\ pc' = "crashed"
              /\ UNCHANGED <<rm, variants, vi>>
         ELSE /\ rm' = "open"
              /\ variants' = SuffixVariants(resource_str)
              /\ vi' = 1
              /\ pc' = "s_open"
    /\ UNCHANGED <<rvars, xvars, cfg, colv, sock_addr, mainv, scope, sock, resource_str, idn, vendor, image_data,
                   fi, ret, ghost, hist>>

\* scpi_capture, lines 279-291: rm.open_resource(attempt) for each variant.
\* Line 285 catches pyvisa.errors.VisaIOError only: any other exception of
\* open_resource leaves scpi_capture with the resource manager still open.
SOpen ==
    /\ pc = "s_open"
    /\ \/ /\ scope' = "open"
          /\ pc' = "s_idn"
          /\ UNCHANGED <<mainv, rm, loc, ghost, results>>
       \/ /\ pc' = "crashed"                      \* not a VisaIOError
          /\ UNCHANGED <<mainv, rm, scope, loc, ghost, results>>
       \/ /\ scope' = "none"                      \* VisaIOError
          /\ IF vi < Len(variants)
             THEN /\ vi' = vi + 1
                  /\ UNCHANGED <<pc, mainv, rm, resource_str, variants, idn, vendor,
                                 image_data, fi, ret, ghost, results>>
             ELSE /\ rm' = "closed"
                  /\ ScpiReturn("False")
                  /\ UNCHANGED <<candidates, ci>>
    /\ UNCHANGED <<rvars, xvars, cfg, colv, sock_addr, sock, ndowngrades, attempts, saved>>

\* scpi_capture, lines 293-307: the timeout and the terminations are set on
\* the session, then the identity query and detect_vendor.  An exception of
\* one of the three assignments is caught at line 342.
SIdentify ==
    /\ pc = "s_idn"
    /\ \/ /\ ret' = "False"                      \* lines 294-298 raise
          /\ pc' = "s_finally"
          /\ UNCHANGED <<idn, vendor>>
       \/ /\ \E i \in {NO_IDN} \cup {Strip(r) : r \in IdnSamples} :
               /\ idn' = i
               /\ vendor' = detect_vendor(i)
          /\ pc' = "s_dump"
          /\ UNCHANGED ret
    /\ UNCHANGED <<rvars, xvars, cfg, colv, sock_addr, mainv, conn, resource_str, variants, vi, image_data, fi,
                   ghost, hist>>

\* _screen_dump, lines 363-374: a known vendor's handler runs and its result,
\* or its exception, goes to scpi_capture; otherwise the loop of line 374 starts.
SDump ==
    /\ pc = "s_dump"
    /\ color' = CoerceColor(DISPLAY_COLOR)        \* lines 358-361
    /\ warnings' = IF ValidColor(DISPLAY_COLOR) THEN warnings ELSE warnings + 1
    /\ IF HandlerOf(vendor) # ""
       THEN /\ invoked' = <<HandlerOf(vendor)>>
            /\ \/ /\ outcomes' = <<Raised>>
                  /\ ret' = "False"               \* caught at line 342
                  /\ pc' = "s_finally"
                  /\ UNCHANGED <<image_data, dump_data>>
               \/ \E d \in DataSamples :
                    /\ outcomes' = <<d>>
                    /\ image_data' = d
                    /\ dump_data' = d
                    /\ pc' = "s_validate"
                    /\ UNCHANGED ret
            /\ UNCHANGED fi
       ELSE /\ fi' = 1
            /\ pc' = "s_try"
            /\ UNCHANGED <<image_data, ret, invoked, outcomes, dump_data>>
    /\ UNCHANGED <<rvars, xvars, cfg, sock_addr, mainv, conn, resource_str, variants, vi, idn, vendor,
                   dg_tried, save_failed, hist>>

\* _screen_dump, lines 374-381: one iteration of the loop over the handlers.
STry ==
    /\ pc = "s_try"
    /\ invoked' = Append(invoked, UnknownOrder[fi])
    /\ \E o \in DataSamples \cup {Raised} :
         /\ outcomes' = Append(outcomes, o)
         /\ IF o # Raised /\ LoopAccepts(o)
            THEN /\ image_data' = o
                 /\ dump_data' = o
                 /\ pc' = "s_validate"
                 /\ UNCHANGED fi
            ELSE IF fi < Len(UnknownOrder)
                 THEN /\ fi' = fi + 1
                      /\ UNCHANGED <<pc, image_data, dump_data>>
                 ELSE /\ image_data' = None
                      /\ dump_data' = None
                      /\ pc' = "s_validate"
                      /\ UNCHANGED fi
    /\ UNCHANGED <<rvars, xvars, cfg, colv, sock_addr, mainv, conn, resource_str, variants, vi, idn, vendor, ret,
                   dg_tried, save_failed, hist>>

\* scpi_capture, lines 312-316 and 336.
SValidate ==
    /\ pc = "s_validate"
    /\ IF ~Accepts(image_data)
       THEN IF NeedsVicpFallback(vendor, resource_str)
            THEN pc' = "d_close" /\ UNCHANGED ret
            ELSE pc' = "s_finally" /\ ret' = "False"
       ELSE pc' = "s_save" /\ UNCHANGED ret
    /\ UNCHANGED <<rvars, xvars, cfg, colv, sock_addr, mainv, conn, resource_str, variants, vi, idn, vendor,
                   image_data, fi, ghost, hist>>

\* scpi_capture, lines 320-324: the session and the manager are closed.
DClose ==
    /\ pc = "d_close"
    /\ color' = CoerceColor(DISPLAY_COLOR)        \* line 318
    /\ scope' = SessionAfterClose(scope)
    /\ rm' = "closed"
    /\ pc' = "d_connect"
    /\ UNCHANGED <<rvars, xvars, cfg, warnings, sock_addr, mainv, sock, loc, ghost, hist>>

\* _dump_lecroy_vicp_raw, line 459: socket.create_connection((ip, 1861)); its
\* OSError is caught at line 327.
DConnect ==
    /\ pc = "d_connect"
    /\ sock_addr' = <<HostOf(resource_str), VICP_PORT>>
    /\ dg_tried' = TRUE
    /\ ndowngrades' = ndowngrades + 1
    /\ \/ /\ sock' = "open"
          /\ pc' = "d_dump"
          /\ UNCHANGED ret
       \/ /\ ret' = "False"
          /\ pc' = AfterRawFailure
          /\ UNCHANGED sock
    /\ UNCHANGED <<rvars, xvars, cfg, colv, mainv, rm, scope, resource_str, variants, vi, idn, vendor,
                   image_data, fi, invoked, outcomes, dump_data, save_failed,
                   attempts, results, saved>>

\* _dump_lecroy_vicp_raw, lines 462-466.
DDump ==
    /\ pc = "d_dump"
    /\ \/ /\ \E n \in 1..2 : SendAll(SubSeq(<<HcsuCommand(color), CMD_SCREEN_DUMP>>, 1, n))
          /\ ret' = "False"                       \* the n-th sock.sendall raises
          /\ UNCHANGED image_data
       \/ \E d \in DataSamples :
            /\ SendAll(<<HcsuCommand(color), CMD_SCREEN_DUMP>>)
            /\ image_data' = d
            /\ UNCHANGED ret
    /\ pc' = "d_sockclose"
    /\ UNCHANGED <<rvars, peer, reply, ovars, cfg, colv, sock_addr, mainv, conn, resource_str, variants, vi, idn, vendor, fi,
                   ghost, hist>>

\* _dump_lecroy_vicp_raw, lines 467-469, and scpi_capture, lines 327-329.
DSockClose ==
    /\ pc = "d_sockclose"
    /\ sock' = "closed"
    /\ pc' = IF ret = "False" THEN AfterRawFailure ELSE "d_validate"
    /\ UNCHANGED <<rvars, xvars, cfg, colv, sock_addr, mainv, rm, scope, loc, ghost, hist>>

\* scpi_capture, lines 330-332.
DValidate ==
    /\ pc = "d_validate"
    /\ IF ~Accepts(image_data)
       THEN pc' = AfterRawFailure /\ ret' = "False"
       ELSE pc' = "s_save" /\ UNCHANGED ret
    /\ UNCHANGED <<rvars, xvars, cfg, colv, sock_addr, mainv, conn, resource_str, variants, vi, idn, vendor,
                   image_data, fi, ghost, hist>>

\* scpi_capture, lines 333-335 and 338-344: image_data is replaced by its
\* stripped form, then saved, inside the try block.
SSave ==
    /\ pc = "s_save"
    /\ image_data' = _strip_ieee_block(image_data)
    /\ \/ /\ saved' = Append(saved, [raw |-> image_data,
                                     img |-> _strip_ieee_block(image_data)])
          /\ ret' = "True"
          /\ UNCHANGED save_failed
       \/ /\ save_failed' = TRUE                  \* _save_image raises
          /\ ret' = "False"
          /\ UNCHANGED saved
    /\ pc' = "s_finally"
    /\ UNCHANGED <<rvars, xvars, cfg, colv, sock_addr, mainv, conn, resource_str, variants, vi, idn, vendor,
                   fi, invoked, outcomes, dump_data, dg_tried,
                   ndowngrades, attempts, results>>

\* scpi_capture, lines 345-350: finally scope.close() and rm.close(); return.
SFinally ==
    /\ pc = "s_finally"
    /\ scope' = SessionAfterClose(scope)
    /\ rm' = "closed"
    /\ ScpiReturn(ret)
    /\ UNCHANGED <<rvars, xvars, cfg, colv, sock_addr, candidates, ci, sock, ndowngrades, attempts, saved>>

\* main, lines 716-719: the loop over the candidates.
MAfterScpi ==
    /\ pc = "m_after_scpi"
    /\ IF LoopContinues(success, ci, Len(candidates))
       THEN /\ ci' = ci + 1
            /\ CallScpi(candidates[ci + 1])
       ELSE /\ pc' = "m_result"
            /\ UNCHANGED <<ci, conn, resource_str, attempts>>
    /\ UNCHANGED <<rvars, xvars, cfg, colv, sock_addr, success, candidates, variants, vi, idn, vendor, image_data,
                   fi, ret, ghost, ndowngrades, results, saved>>

\* main, lines 727-741.
MResult ==
    /\ pc = "m_result"
    /\ pc' = IF success = "True" THEN "done_ok" ELSE "done_fail"
    /\ UNCHANGED <<rvars, xvars, cfg, colv, sock_addr, mainv, conn, loc, ghost, hist>>

InitCapture ==
    /\ CONNECTION_TYPE \in {"ETHERNET", "USB", "SERIAL"}
    /\ SCOPE_PORT \in (IF CONNECTION_TYPE = "ETHERNET" THEN {0, 4000} ELSE {0})
    /\ USB_RESOURCE \in (IF CONNECTION_TYPE = "USB"
                         THEN UsbResources \cup {<<>>, <<Txt("Tcpip"), SCOPE_IP, Txt("inst0"), Txt("INSTR")>>}
                         ELSE {<<Txt("USB0"), Txt("0x05FF"), Txt("INSTR")>>})
    /\ DISPLAY_COLOR \in (IF SCOPE_PORT = 0 /\ USB_RESOURCE = <<Txt("USB0"), Txt("0x05FF"), Txt("INSTR")>>
                          THEN ColorSamples ELSE {K_WHITE})
    /\ CaptureIdle
    /\ SendIdle
    /\ BuildIdle
    /\ UsbIdle
    /\ HarnessIdle
    /\ frames = <<>>
    /\ wire = <<>>
    /\ pos = 0
    /\ rpc = "idle"
    /\ buf = <<>>
    /\ need = 0
    /\ op = 0
    /\ length = 0
    /\ image = <<>>
    /\ rend = ""
    /\ result = <<>>
    /\ split = FALSE

NextCapture ==
    \/ MStart
    \/ VConnect
    \/ VIdentify
    \/ VDump
    \/ VFinally
    \/ VValidate
    \/ VSave
    \/ MAfterVicp
    \/ SOpenRm
    \/ SOpen
    \/ SIdentify
    \/ SDump
    \/ STry
    \/ SValidate
    \/ DClose
    \/ DConnect
    \/ DDump
    \/ DSockClose
    \/ DValidate
    \/ SSave
    \/ SFinally
    \/ MAfterScpi
    \/ MResult

Spec == InitCapture /\ [][NextCapture]_vars

(***************************************************************************)
(* vicp_capture at the grain of its socket calls, with a peer              *)
(***************************************************************************)
\* What the peer answers with: the short payloads, an identity that names a
\* LeCroy, and an image of 100 bytes.
Answers == Payloads \cup {K_LECROY, Blob(100)}

\* The peer sends the frame it received back (a loopback); the bytes are
\* queued behind those the socket still holds.  The peer answers a command
\* once, on the open socket, while _vicp_recv is not running.
PeerEcho ==
    /\ sock = "open"
    /\ rpc = "idle" /\ peer = ""
    /\ sent # Unset /\ sent # Raised
    /\ wire' = wire \o sent
    /\ peer' = "echo"
    /\ UNCHANGED <<frames, pos, rpc, buf, need, op, length, image, rend, result, split,
                   cvars, ovars, _VICP_SEQ, cmd, sent, reply, wrapped>>

\* The peer answers with one DATA+EOI frame that carries payload.
PeerReply(payload) ==
    /\ sock = "open"
    /\ rpc = "idle" /\ peer = ""
    /\ sent # Unset /\ sent # Raised
    /\ wire' = wire \o FrameBytes([op |-> 129, seq |-> sent[3], payload |-> payload])
    /\ peer' = "reply"
    /\ reply' = payload
    /\ UNCHANGED <<frames, pos, rpc, buf, need, op, length, image, rend, result, split,
                   cvars, ovars, _VICP_SEQ, cmd, sent, wrapped>>

\* line 449: _vicp_recv returns bytes(image).  The bytes the call did not
\* read stay in the socket: wire keeps them and drops the pos bytes that were
\* read.
RecvReturn ==
    /\ rpc = "done"
    /\ rpc' = "idle"
    /\ wire' = SubSeq(wire, pos + 1, Len(wire))
    /\ pos' = 0
    /\ buf' = <<>>
    /\ need' = 0
    /\ op' = 0
    /\ length' = 0
    /\ image' = <<>>
    /\ rend' = ""
    /\ result' = <<>>
    /\ split' = FALSE
    /\ UNCHANGED frames

\* vicp_capture, line 491: _vicp_send(sock, "*IDN?"); an OSError of
\* sock.sendall is caught at line 512.
VSendIdn ==
    /\ pc = "v_idn"
    /\ VicpSend(CMD_IDN)
    /\ peer' = "" /\ reply' = <<>>
    /\ \/ pc' = "v_idn_recv" /\ UNCHANGED ret
       \/ pc' = "v_finally" /\ ret' = "False"
    /\ UNCHANGED <<rvars, ovars, cfg, colv, sock_addr, mainv, conn, resource_str, variants,
                   vi, idn, vendor, image_data, fi, ghost, hist>>

\* vicp_capture, lines 493 and 510, and _dump_lecroy_vicp_raw, line 466:
\* _vicp_recv(sock) is called.
RecvCall ==
    /\ pc \in {"v_idn_recv", "v_img_recv", "r_recv"}
    /\ RecvStart

\* vicp_capture, lines 493-501: _vicp_recv returns idn_raw, which is decoded,
\* stripped and classified.
VIdnReturn ==
    /\ pc = "v_idn_recv"
    /\ RecvReturn
    /\ LET i == Strip(DecodeAscii(result)) IN
       /\ idn' = i
       /\ vendor' = detect_vendor(i)
       /\ IF ~VicpProceeds(detect_vendor(i))
          THEN ret' = "False" /\ pc' = "v_finally"
          ELSE ret' = ret /\ pc' = "v_dump"
    /\ UNCHANGED <<xvars, cfg, colv, sock_addr, mainv, conn, resource_str, variants, vi,
                   image_data, fi, ghost, hist>>

\* vicp_capture, line 504: the HCSU command is sent.
VSendHcsu ==
    /\ pc = "v_dump"
    /\ VicpSend(HcsuCommand(color))
    /\ peer' = "" /\ reply' = <<>>
    /\ \/ pc' = "v_dump_sd" /\ UNCHANGED ret
       \/ pc' = "v_finally" /\ ret' = "False"
    /\ UNCHANGED <<rvars, ovars, cfg, colv, sock_addr, mainv, conn, resource_str, variants,
                   vi, idn, vendor, image_data, fi, ghost, hist>>

\* vicp_capture, line 506: SCREEN_DUMP is sent.
VSendDump ==
    /\ pc = "v_dump_sd"
    /\ VicpSend(CMD_SCREEN_DUMP)
    /\ peer' = "" /\ reply' = <<>>
    /\ \/ pc' = "v_img_recv" /\ UNCHANGED ret
       \/ pc' = "v_finally" /\ ret' = "False"
    /\ UNCHANGED <<rvars, ovars, cfg, colv, sock_addr, mainv, conn, resource_str, variants,
                   vi, idn, vendor, image_data, fi, ghost, hist>>

\* vicp_capture, line 510: image_data = _vicp_recv(sock).
VImgReturn ==
    /\ pc = "v_img_recv"
    /\ RecvReturn
    /\ image_data' = result
    /\ pc' = "v_finally"
    /\ UNCHANGED <<xvars, cfg, colv, sock_addr, mainv, conn, resource_str, variants, vi,
                   idn, vendor, fi, ret, ghost, hist>>

\* _dump_lecroy_vicp_raw(ip, color, timeout_sec) is called on the module
\* after import, with the host and the colour scpi_capture gives it (lines
\* 317-318); lines 459-460: socket.create_connection((ip, 1861)), whose
\* OSError leaves the function.
RawConnect ==
    /\ pc = "m_start"
    /\ color' = CoerceColor(DISPLAY_COLOR)
    /\ sock_addr' = <<SCOPE_IP, VICP_PORT>>
    /\ \/ /\ sock' = "open"
          /\ pc' = "r_hcsu"
          /\ UNCHANGED ret
       \/ /\ ret' = "raised"
          /\ pc' = "r_raised"
          /\ UNCHANGED sock
    /\ UNCHANGED <<rvars, xvars, cfg, warnings, mainv, rm, scope, resource_str, variants, vi,
                   idn, vendor, image_data, fi, ghost, hist>>

\* _dump_lecroy_vicp_raw, line 462: the HCSU command is sent; an OSError of
\* sock.sendall goes through the finally block.
RawSendHcsu ==
    /\ pc = "r_hcsu"
    /\ VicpSend(HcsuCommand(color))
    /\ peer' = "" /\ reply' = <<>>
    /\ \/ pc' = "r_dump" /\ UNCHANGED ret
       \/ pc' = "r_finally" /\ ret' = "raised"
    /\ UNCHANGED <<rvars, ovars, cfg, colv, sock_addr, mainv, conn, resource_str, variants,
                   vi, idn, vendor, image_data, fi, ghost, hist>>

\* _dump_lecroy_vicp_raw, line 464: SCREEN_DUMP is sent.
RawSendDump ==
    /\ pc = "r_dump"
    /\ VicpSend(CMD_SCREEN_DUMP)
    /\ peer' = "" /\ reply' = <<>>
    /\ \/ pc' = "r_recv" /\ UNCHANGED ret
       \/ pc' = "r_finally" /\ ret' = "raised"
    /\ UNCHANGED <<rvars, ovars, cfg, colv, sock_addr, mainv, conn, resource_str, variants,
                   vi, idn, vendor, image_data, fi, ghost, hist>>

\* _dump_lecroy_vicp_raw, line 466: data = _vicp_recv(sock).
RawRecvReturn ==
    /\ pc = "r_recv"
    /\ RecvReturn
    /\ image_data' = result
    /\ pc' = "r_finally"
    /\ UNCHANGED <<xvars, cfg, colv, sock_addr, mainv, conn, resource_str, variants, vi,
                   idn, vendor, fi, ret, ghost, hist>>

\* _dump_lecroy_vicp_raw, lines 467-469: finally sock.close(), then data is
\* returned or the exception goes on.
RawFinally ==
    /\ pc = "r_finally"
    /\ sock' = "closed"
    /\ pc' = IF ret = "raised" THEN "r_raised" ELSE "r_returned"
    /\ UNCHANGED <<rvars, xvars, cfg, colv, sock_addr, mainv, rm, scope, loc, ghost, hist>>

\* The module after import, configured for Ethernet.
InitVicp ==
    /\ CONNECTION_TYPE = "ETHERNET"
    /\ SCOPE_PORT = 0
    /\ USB_RESOURCE = <<>>
    /\ DISPLAY_COLOR = K_WHITE
    /\ CaptureIdle
    /\ SendIdle
    /\ BuildIdle
    /\ UsbIdle
    /\ HarnessIdle
    /\ frames = <<>>
    /\ wire = <<>>
    /\ pos = 0
    /\ rpc = "idle"
    /\ buf = <<>>
    /\ need = 0
    /\ op = 0
    /\ length = 0
    /\ image = <<>>
    /\ rend = ""
    /\ result = <<>>
    /\ split = FALSE

\* main up to the return of vicp_capture (line 711), or one call of
\* _dump_lecroy_vicp_raw, with a peer that answers a command at most once.
NextVicp ==
    \/ MStart
    \/ VConnect
    \/ VSendIdn
    \/ RecvCall
    \/ \E k \in 1..Len(wire) : RecvChunk(k)
    \/ RecvClosed
    \/ RecvTimeout
    \/ VIdnReturn
    \/ VSendHcsu
    \/ VSendDump
    \/ VImgReturn
    \/ VFinally
    \/ VValidate
    \/ VSave
    \/ RawConnect
    \/ RawSendHcsu
    \/ RawSendDump
    \/ RawRecvReturn
    \/ RawFinally
    \/ PeerEcho
    \/ \E payload \in Answers : PeerReply(payload)

SpecVicp == InitVicp /\ [][NextVicp]_vars

(***************************************************************************)
(* Reference definitions for the claims about _vicp_recv                   *)
(***************************************************************************)
RECURSIVE DataConcat(_)
DataConcat(fs) ==
    IF fs = <<>> THEN <<>>
    ELSE (IF IsData(Head(fs).op) THEN Head(fs).payload ELSE <<>>) \o DataConcat(Tail(fs))

\* Number of leading frames whose bytes were all delivered within p bytes.
RECURSIVE CompleteFrames(_, _)
CompleteFrames(fs, p) ==
    IF fs = <<>> \/ Len(FrameBytes(Head(fs))) > p THEN 0
    ELSE 1 + CompleteFrames(Tail(fs), p - Len(FrameBytes(Head(fs))))

EoiOnlyLast(fs) ==
    /\ Len(fs) >= 1
    /\ IsEoi(fs[Len(fs)].op)
    /\ \A i \in 1..(Len(fs) - 1) : ~IsEoi(fs[i].op)

NoEoi(fs) == \A i \in 1..Len(fs) : ~IsEoi(fs[i].op)
AllData(fs) == \A i \in 1..Len(fs) : IsData(fs[i].op)

\* C1: for a frame sequence whose last frame, and no earlier one, has EOI, and
\* whose reads all succeed, _vicp_recv returns the concatenation of the payloads
\* of the DATA frames in arrival order and stops at the EOI frame.
C1_EoiReturnsDataConcat ==
    (rpc = "done" /\ rend = "eoi" /\ EoiOnlyLast(frames))
        => /\ result = DataConcat(frames)
           /\ pos = Len(Wire(frames))

\* Witness for C1: two frames, a non-DATA frame with a payload then a DATA|EOI frame.
C1_Witness ==
    /\ rpc = "done" /\ rend = "eoi" /\ EoiOnlyLast(frames)
    /\ Len(frames) = 2 /\ ~IsData(frames[1].op) /\ Len(frames[1].payload) > 0
    /\ Len(result) > 0

\* C2: when a read fails (close or timeout) after N >= 1 complete DATA frames and
\* before any EOI frame, _vicp_recv returns the concatenation of those N payloads;
\* the bytes of an incomplete trailing frame contribute nothing.
C2_EarlyCloseReturnsPrefix ==
    LET n == CompleteFrames(frames, pos)
        got == SubSeq(frames, 1, n)
    IN (rpc = "done" /\ rend \in {"closed", "timeout"} /\ n >= 1
            /\ NoEoi(got) /\ AllData(got))
        => result = DataConcat(got)

\* Witness for C2: one complete DATA frame, then a close inside the payload of
\* the next frame.
C2_Witness ==
    /\ rpc = "done" /\ rend = "closed"
    /\ CompleteFrames(frames, pos) = 1 /\ IsData(frames[1].op) /\ ~IsEoi(frames[1].op)
    /\ Len(frames[1].payload) > 0
    /\ Len(buf) > 0 /\ pos < Len(Wire(frames))

(***************************************************************************)
(* Reference definitions for the claims about the capture orchestration    *)
(***************************************************************************)
OpenConns == (IF scope = "open" THEN 1 ELSE 0) + (IF sock = "open" THEN 1 ELSE 0)

ExpectedAttempts ==
    IF CONNECTION_TYPE = "ETHERNET"
    THEN << <<Txt("VICP")>> >> \o build_ethernet_resources(SCOPE_IP, SCOPE_PORT)
    ELSE IF USB_RESOURCE # <<>> THEN <<USB_RESOURCE>>
    ELSE candidates

Qualifies(o) == o # Raised /\ o # None /\ Len(o) >= 100

\* The identity query was made (vendor is assigned right after it, line 305)
\* and raised or returned an empty string.
IdnFailed == vendor # "" /\ (idn = <<>> \/ idn = NO_IDN)

\* C3: when a TCPIP session identifies the instrument as LECROY and the dumped
\* image is missing or below 100 bytes, scpi_capture closes the session, then
\* tries the raw VICP socket on port 1861 before it returns False; and a raw
\* capture that passes validation and is saved makes scpi_capture return True.
C3_FallbackBeforeFailure ==
    /\ (pc = "s_finally" /\ ret = "False" /\ FallbackDue) => dg_tried
    /\ (pc \in {"d_connect", "d_dump", "d_sockclose", "d_validate"})
           => (scope = "closed" /\ rm = "closed" /\ FallbackDue)
    /\ (pc \in {"d_dump", "d_sockclose"}) => sock_addr = <<resource_str[2], 1861>>
    /\ (pc = "s_finally" /\ dg_tried /\ image_data # Unset /\ image_data # None
           /\ Len(image_data) >= 100 /\ ~save_failed) => ret = "True"

\* Witness for C3: the session returned 99 bytes, the raw capture succeeded.
C3_Witness ==
    /\ pc = "s_finally" /\ ret = "True" /\ dg_tried
    /\ dump_data = Blob(99) /\ vendor = "LECROY"
    /\ resource_str = <<Txt("TCPIP"), SCOPE_IP, Txt("inst0"), Txt("INSTR")>>
    /\ Len(saved) = 1

\* C4 as stated: in one invocation the raw VICP fallback is tried at most once.
C4_Original == ndowngrades <= 1

\* C4 amended: the raw VICP fallback is tried at most once in each scpi_capture
\* call, hence at most once for each candidate main has tried.
C4_OncePerCandidate ==
    /\ ndowngrades <= ci
    /\ ndowngrades <= 3
    /\ pc = "d_connect" => ~dg_tried

\* Witness for C4: the fallback was tried for each of the three candidates.
C4_Witness == ndowngrades = 3 /\ pc = "done_fail"

\* C5: at most one connection to the instrument is open at any time, and none
\* is open when a connection is about to be opened or an attempt has ended.
C5_OneConnection ==
    /\ OpenConns <= 1
    /\ pc \in {"v_connect", "s_openrm", "s_open", "d_connect"} => OpenConns = 0
    /\ pc \in {"m_after_vicp", "m_after_scpi", "m_result", "done_ok", "done_fail",
               "crashed"} => OpenConns = 0

\* Witness for C5: the raw socket of the fallback is open after the session
\* of the same attempt was closed.
C5_Witness == pc = "d_dump" /\ sock = "open" /\ scope = "closed" /\ ci = 2

\* C6: main reports failure only after every candidate was attempted and
\* failed, each with its fallback where one was due; and after a successful
\* attempt no further attempt is started.
C6_FailureOnlyAfterAll ==
    /\ pc = "done_fail" =>
          /\ attempts = ExpectedAttempts
          /\ Len(results) = Len(attempts)
          /\ \A i \in 1..Len(results) :
                ~results[i].ok /\ (results[i].due => results[i].dg)
    /\ \A i \in 1..Len(results) : results[i].ok => i = Len(attempts)
    /\ pc = "done_ok" => (Len(results) = Len(attempts) /\ results[Len(results)].ok)

\* Witness for C6: an Ethernet capture failed after the native attempt and the
\* three resources, with a fallback on the way.
C6_Witness ==
    pc = "done_fail" /\ CONNECTION_TYPE = "ETHERNET" /\ Len(attempts) = 4
        /\ ndowngrades >= 1

\* C7 as stated: an image is accepted only if it has more than 100 bytes.
C7_Original ==
    /\ \A i \in 1..Len(saved) : Len(saved[i].raw) > 100
    /\ pc \in {"v_save", "s_save"} => Len(image_data) > 100

\* C7 amended: an image is accepted (stripped and saved) only if it has at
\* least 100 bytes; fewer than 100 bytes, or no result, is rejected.
C7_AcceptAtLeast100 ==
    /\ \A i \in 1..Len(saved) :
          /\ saved[i].raw # None /\ saved[i].raw # Unset
          /\ Len(saved[i].raw) >= 100
    /\ pc \in {"v_save", "s_save"} =>
          (image_data # None /\ image_data # Unset /\ Len(image_data) >= 100)

\* Witness for C7: an image of exactly 100 bytes was saved.
C7_Witness == Len(saved) = 1 /\ Len(saved[1].raw) = 100 /\ pc = "done_ok"

\* C8 as stated: with vendor UNKNOWN the handlers run in the order KEYSIGHT,
\* RIGOL, LECROY, TEKTRONIX and _screen_dump returns the result of the first
\* one whose result has at least 100 bytes, calling none after it; a handler
\* that raises is skipped; if none qualifies the result is None.
C8_FirstAtLeast100 ==
    (pc = "s_validate" /\ vendor = "UNKNOWN") =>
        /\ Len(invoked) >= 1 /\ Len(outcomes) = Len(invoked)
        /\ invoked = SubSeq(UnknownOrder, 1, Len(invoked))
        /\ \A i \in 1..(Len(invoked) - 1) : ~Qualifies(outcomes[i])
        /\ IF Qualifies(outcomes[Len(outcomes)])
           THEN dump_data = outcomes[Len(outcomes)]
           ELSE Len(invoked) = Len(UnknownOrder) /\ dump_data = None

\* C9 as stated: no exception leaves scpi_capture or vicp_capture.
C9_NoExceptionEscapes == pc # "crashed"

\* C10: when the identity query of an opened resource raises or returns an
\* empty string, the vendor tag is UNKNOWN and the attempt goes on, on the
\* same session, with the handlers tried for an unknown vendor.
C10_IdnFailureProceeds ==
    /\ (pc \in {"s_dump", "s_try", "s_validate"} /\ IdnFailed)
           => (vendor = "UNKNOWN" /\ scope = "open" /\ ret = "")
    /\ (pc = "s_validate" /\ IdnFailed)
           => (Len(invoked) >= 1 /\ invoked = SubSeq(UnknownOrder, 1, Len(invoked)))
    /\ (pc = "s_finally" /\ IdnFailed) => dump_data # Unset

\* Witness for C10: the query returned an empty string and the second handler
\* of the unknown-vendor sequence is about to run.
C10_Witness == pc = "s_try" /\ idn = <<>> /\ fi = 2 /\ scope = "open"

\* The receive step of _dump_lecroy produced no data: scope.read_raw() raised
\* (a timeout is a VisaIOError) or returned the empty byte string.
NoDataReceived == outcomes = <<Raised>> \/ outcomes = << <<>> >>

\* C11: when the vendor is LECROY on a TCPIP session and the receive step
\* produced no data, by an empty read or by a read that timed out or raised,
\* the attempt reports failure only after the raw connection to port 1861 of
\* the same host was tried.
C11_NoDataRecoveredLikeUndersized ==
    (/\ pc = "s_finally" /\ ret = "False"
     /\ vendor = "LECROY" /\ IsTcpip(resource_str)
     /\ invoked = <<"_dump_lecroy">> /\ NoDataReceived)
        => (dg_tried /\ sock_addr = <<HostOf(resource_str), VICP_PORT>>)

\* C12: when a read fails, by a close or a timeout, before the first frame
\* header is complete, _vicp_recv returns the empty byte string; that value
\* is rejected by the size validation of its callers (lines 325 and 518) and
\* is not identified as LECROY (lines 497-499), so the attempt returns False
\* before any call of _save_image.
C12_FailBeforeFirstHeaderReturnsEmpty ==
    (rpc = "done" /\ rend \in {"closed", "timeout"} /\ pos < _VICP_HLEN)
        => /\ result = <<>>
           /\ ~Accepts(result)
           /\ detect_vendor(Strip(DecodeAscii(result))) # "LECROY"

\* Witness for C12: the read timed out after five bytes of the first header.
C12_Witness ==
    /\ rpc = "done" /\ rend = "timeout"
    /\ pos = 5 /\ Len(buf) = 5 /\ image = <<>> /\ Len(frames) > 0

(***************************************************************************)
(* Claims about _vicp_next_seq and _vicp_send                              *)
(***************************************************************************)
\* C13: every call of _vicp_next_seq moves the counter to the previous value
\* plus 1, and from 255 back to 1; the sequence number placed in an outgoing
\* frame is the value returned, lies in 1..255 and is never 0.
C13_SeqInRangeAndWraps ==
    [][/\ _VICP_SEQ' # _VICP_SEQ =>
            /\ _VICP_SEQ' = (IF _VICP_SEQ = 255 THEN 1 ELSE _VICP_SEQ + 1)
            /\ sent' # Raised /\ sent'[3] = _VICP_SEQ'
       /\ (sent' # Unset /\ sent' # Raised) =>
            /\ sent'[3] \in 1..255
            /\ sent'[3] # 0
            /\ sent'[3] = _VICP_SEQ']_vars

\* Witness for C13: the counter has gone from 255 back to 1 and the frame
\* sent last carries sequence number 1, on a socket that holds unread bytes.
C13_Witness == wrapped /\ _VICP_SEQ = 1 /\ sent # Raised /\ sent[3] = 1 /\ wire # <<>>

\* C14: the sequence numbers sent on a newly opened raw connection do not
\* depend on the frames sent on earlier connections: the k-th frame sent on a
\* connection carries sequence number k, on the connection of vicp_capture
\* (three frames) and on that of _dump_lecroy_vicp_raw (two frames).
C14_SeqPerConnection ==
    /\ (pc = "v_dump" /\ cmd = CMD_IDN) => sent[3] = 1
    /\ (pc = "v_finally" /\ cmd = CMD_SCREEN_DUMP) => sent[3] = 3
    /\ (pc = "d_sockclose" /\ cmd = CMD_HCSU) => sent[3] = 1
    /\ (pc = "d_sockclose" /\ cmd = CMD_SCREEN_DUMP) => sent[3] = 2

\* C15: for every ASCII command, what _vicp_send gives to sock.sendall is an
\* 8-byte header followed by the command bytes; the header is the flags byte
\* 0xC1 (exactly DATA, REMOTE and EOI), version 1, the sequence number just
\* drawn, a zero pad byte, and the number of command bytes as four bytes,
\* most significant first.
C15_SendFrameLayout ==
    (sent # Unset /\ sent # Raised) =>
        /\ Len(sent) = 8 + Len(cmd)
        /\ sent[1] = 193
        /\ IsData(sent[1]) /\ (sent[1] \div 64) % 2 = 1 /\ IsEoi(sent[1])
        /\ sent[1] - 128 - 64 - 1 = 0
        /\ sent[2] = 1
        /\ sent[3] = _VICP_SEQ
        /\ sent[4] = 0
        /\ \A i \in 5..8 : sent[i] \in 0..255
        /\ sent[5] * 16777216 + sent[6] * 65536 + sent[7] * 256 + sent[8] = Len(cmd)
        /\ \A i \in 1..Len(cmd) : cmd[i] < 128 /\ sent[8 + i] = cmd[i]

\* Witness for C15: the 60-character HCSU command was sent as the second
\* frame after the counter went round, on a socket that holds unread bytes.
C15_Witness ==
    /\ sent # Unset /\ sent # Raised
    /\ cmd = CMD_HCSU /\ sent[3] = 2 /\ sent[8] = 60 /\ Len(sent) = 68
    /\ wrapped /\ wire # <<>>

\* The socket holds the peer's answer to the last command and nothing else:
\* no byte of an earlier answer is unread and no byte of this one was read.
AnswerOnly ==
    \/ peer = "reply" /\ wire = FrameBytes([op |-> 129, seq |-> sent[3], payload |-> reply])
    \/ peer = "echo" /\ wire = sent

\* C16 as stated: after a command is sent, when the peer has answered it with
\* one DATA+EOI frame that carries payload P, _vicp_recv returns exactly P;
\* when the peer has sent back the bytes _vicp_send produced for command C,
\* _vicp_recv returns the ASCII bytes of C.
C16_Original ==
    /\ (rpc = "done" /\ rend = "eoi" /\ peer = "reply") => result = reply
    /\ (rpc = "done" /\ rend = "eoi" /\ peer = "echo") => result = EncodeAscii(cmd)

\* C16: when the answer to the command sent last is all the socket holds
\* unread, _vicp_recv returns exactly the payload P of the peer's DATA+EOI
\* frame, and the ASCII bytes of command C when the peer sent back the bytes
\* _vicp_send produced for C; _vicp_recv ends at the EOI once all the bytes
\* have arrived.
C16_RoundTrip ==
    /\ (rpc = "done" /\ rend = "eoi" /\ peer = "reply" /\ AnswerOnly) => result = reply
    /\ (rpc = "done" /\ rend = "eoi" /\ peer = "echo" /\ AnswerOnly)
           => result = EncodeAscii(cmd)
    /\ (AnswerOnly /\ rpc # "idle" /\ pos = Len(wire)) => (rpc = "done" /\ rend = "eoi")

\* Witness for C16: the peer left HCSU unanswered, the frame of SCREEN_DUMP
\* came back alone and was returned.
C16_Witness ==
    /\ rpc = "done" /\ rend = "eoi" /\ peer = "echo" /\ AnswerOnly
    /\ cmd = CMD_SCREEN_DUMP /\ result = CMD_SCREEN_DUMP /\ pos = 19

(***************************************************************************)
(* Claims about the order of the connection attempts                       *)
(***************************************************************************)
\* C17 as stated: for a network target no raw-socket connection to the host
\* is open before both structured forms, inst0 and hislip0, were attempted.
C17_Original ==
    (CONNECTION_TYPE = "ETHERNET" /\ sock = "open") =>
        /\ \E i \in 1..Len(attempts) : attempts[i] = <<Txt("TCPIP"), SCOPE_IP, Txt("inst0"), Txt("INSTR")>>
        /\ \E j \in 1..Len(attempts) : attempts[j] = <<Txt("TCPIP"), SCOPE_IP, Txt("hislip0"), Txt("INSTR")>>

\* C17 amended: for a network target the attempts are, in order, the native
\* VICP attempt (a raw connection to port 1861), inst0, hislip0 and the SOCKET
\* resource, so both structured forms are attempted before the SOCKET
\* candidate; the only raw connections opened before that are those to port
\* 1861 of the host, by the native attempt and by the fallback of an attempt.
C17_CandidateOrder ==
    CONNECTION_TYPE = "ETHERNET" =>
        /\ Len(attempts) <= 4
        /\ Len(attempts) >= 1 => attempts[1] = <<Txt("VICP")>>
        /\ Len(attempts) >= 2 => attempts[2] = <<Txt("TCPIP"), SCOPE_IP, Txt("inst0"), Txt("INSTR")>>
        /\ Len(attempts) >= 3 => attempts[3] = <<Txt("TCPIP"), SCOPE_IP, Txt("hislip0"), Txt("INSTR")>>
        /\ Len(attempts) >= 4 =>
              /\ Len(attempts[4]) = 4
              /\ attempts[4][1] = Txt("TCPIP") /\ attempts[4][2] = SCOPE_IP
              /\ attempts[4][4] = Txt("SOCKET")
        /\ sock = "open" =>
              /\ sock_addr = <<SCOPE_IP, VICP_PORT>>
              /\ pc \in {"v_idn", "v_dump", "v_finally", "d_dump", "d_sockclose"}

\* Witness for C17: the SOCKET candidate is being opened after the native
\* attempt and both structured forms, each with its fallback, have failed.
C17_Witness ==
    /\ CONNECTION_TYPE = "ETHERNET" /\ pc = "s_open" /\ ci = 3
    /\ Len(attempts) = 4 /\ attempts[4][4] = Txt("SOCKET") /\ ndowngrades = 2

(***************************************************************************)
(* Claims about build_ethernet_resources                                   *)
(***************************************************************************)
\* C18: for every host and port build_ethernet_resources returns exactly
\* three candidates, TCPIP::host::inst0::INSTR, TCPIP::host::hislip0::INSTR
\* and TCPIP::host::p::SOCKET for a port p, in this order; two calls with the
\* same arguments return the same sequence.
C18_ThreeCandidatesInOrder ==
    be_call # <<>> =>
        LET host == be_call[1] IN
        /\ Len(be_resources) = 3
        /\ ResourceString(be_resources[1]) = Txt("TCPIP::") \o host \o Txt("::inst0::INSTR")
        /\ ResourceString(be_resources[2]) = Txt("TCPIP::") \o host \o Txt("::hislip0::INSTR")
        /\ \E p \in Ports \cup {1861, 5025} :
              ResourceString(be_resources[3])
                  = Txt("TCPIP::") \o host \o Txt("::") \o Str(p) \o Txt("::SOCKET")
        /\ be_prev_call = be_call => be_prev_resources = be_resources

\* Witness for C18: two calls in a row for host 10.0.0.5 and port 4000.
C18_Witness ==
    /\ be_call = <<Txt("10.0.0.5"), 4000>> /\ be_prev_call = be_call
    /\ ResourceString(be_resources[3]) = Txt("TCPIP::10.0.0.5::4000::SOCKET")

\* C19 as stated: the port of the SOCKET candidate is the port given when it
\* is not 0, and the lower-numbered of the ports 1861 and 5025 when it is 0.
C19_Original ==
    be_call # <<>> =>
        be_resources[3][3] = Str(IF be_call[2] # 0 THEN be_call[2] ELSE Min(1861, 5025))

\* C19 amended: the port of the SOCKET candidate is the port given when it is
\* not 0, and 5025, the higher-numbered of the ports 1861 and 5025, when it
\* is 0.
C19_DefaultPort5025 ==
    be_call # <<>> =>
        /\ be_resources[3][3] = Str(IF be_call[2] # 0 THEN be_call[2] ELSE 5025)
        /\ be_resources[3][4] = Txt("SOCKET")

\* Witness for C19: a call with port 0 returned the SOCKET candidate of port
\* 5025 after a call with port 1861 returned that of port 1861.
C19_Witness ==
    /\ be_call # <<>> /\ be_call[2] = 0 /\ be_resources[3][3] = Txt("5025")
    /\ be_prev_call # <<>> /\ be_prev_call[2] = 1861 /\ be_prev_resources[3][3] = Txt("1861")

(***************************************************************************)
(* Claims about find_usb_resource                                          *)
(***************************************************************************)
\* A pattern yields when its enumeration does not raise and lists an address.
Yields(i) == ~usb_env[i].raises /\ Len(usb_env[i].found) > 0

\* C20: find_usb_resource gives the patterns USB?*::INSTR, USB?*::INST and
\* USB?* to rm.list_resources in that order and stops at the first that
\* yields an address, an enumeration that raises yielding none; it returns the
\* first address that pattern enumerated and keeps addresses of that pattern
\* only, and it returns None when no pattern yields.
C20_FirstYieldingPattern ==
    usb_pc = "done" =>
        IF \E i \in 1..3 : Yields(i)
        THEN LET first == CHOOSE i \in 1..3 : Yields(i) /\ \A j \in 1..(i - 1) : ~Yields(j) IN
             /\ usb_queried = SubSeq(<<"USB?*::INSTR", "USB?*::INST", "USB?*">>, 1, first)
             /\ usb_ret = usb_env[first].found[1]
             /\ \A k \in 1..Len(usb_resources) :
                   \E m \in 1..Len(usb_env[first].found) :
                       usb_resources[k] = usb_env[first].found[m]
        ELSE /\ usb_queried = <<"USB?*::INSTR", "USB?*::INST", "USB?*">>
             /\ usb_ret = None

\* Witness for C20: the first pattern raised, the second listed two addresses
\* and the third, which lists another address, was not tried.
C20_Witness ==
    /\ usb_pc = "done"
    /\ usb_env[1].raises
    /\ Yields(2) /\ Len(usb_env[2].found) = 2 /\ usb_env[2].found[1] # usb_env[2].found[2]
    /\ Yields(3) /\ usb_env[3].found[1] # usb_env[2].found[1]
    /\ usb_ret = usb_env[2].found[1] /\ Len(usb_queried) = 2 /\ Len(usb_resources) = 2

(***************************************************************************)
(* Claims about the suffix variants of scpi_capture                        *)
(***************************************************************************)
\* C21 as stated: when the open of an address ending in INSTR (or INST) is
\* rejected, scpi_capture opens the address with the suffix replaced by INST
\* (or INSTR) before it gives up; a candidate is opened at most twice, an
\* address with neither suffix once, and False is returned from the opens only
\* after every variant was rejected.
C21_SuffixRetry ==
    [][pc = "s_open" =>
         LET n == Len(resource_str)
             alt == IF resource_str[n] = Txt("INSTR") THEN Txt("INST")
                    ELSE IF resource_str[n] = Txt("INST") THEN Txt("INSTR") ELSE <<>>
             opened == variants[vi] IN
         /\ vi \in 1..2
         /\ vi = 1 => opened = resource_str
         /\ vi = 2 => (alt # <<>> /\ opened = [resource_str EXCEPT ![n] = alt])
         /\ pc' \in {"s_open", "s_idn", "m_after_scpi"}
         /\ pc' = "s_idn" => scope' = "open"
         /\ pc' = "s_open" => (scope' # "open" /\ vi = 1 /\ alt # <<>> /\ vi' = 2)
         /\ pc' = "m_after_scpi" =>
               (scope' # "open" /\ success' = "False" /\ (vi = 2 \/ alt = <<>>))
         /\ (scope' # "open" /\ vi = 1 /\ alt # <<>>) => pc' = "s_open"]_vars

(***************************************************************************)
(* Claims about _strip_ieee_block                                          *)
(***************************************************************************)
\* The decimal value of a string of ASCII digits.
RECURSIVE DecValue(_)
DecValue(ds) ==
    IF ds = <<>> THEN 0 ELSE DecValue(SubSeq(ds, 1, Len(ds) - 1)) * 10 + (ds[Len(ds)] - 48)

\* The length-of-length digit N of an envelope and its count L.
EnvN(d) == d[2] - 48
EnvL(d) == DecValue(SubSeq(d, 3, 2 + EnvN(d)))

\* A well-formed envelope: "#", one digit N, N ASCII digits giving the count
\* L, and at least L more bytes.
WellFormedBlock(d) ==
    /\ Len(d) >= 2 /\ d[1] = 35 /\ d[2] \in 49..57
    /\ Len(d) >= 2 + EnvN(d)
    /\ \A i \in 3..(2 + EnvN(d)) : d[i] \in 48..57
    /\ Len(d) >= 2 + EnvN(d) + EnvL(d)

\* The L bytes that follow the length field.
DeclaredPayload(d) == SubSeq(d, 3 + EnvN(d), 2 + EnvN(d) + EnvL(d))

\* C22: _strip_ieee_block returns its input unchanged when the input is empty
\* or does not begin with "#"; for a well-formed envelope it returns exactly
\* the L bytes that follow the length field.
C22_StripWellFormed ==
    st_ret # Unset =>
        /\ (st_data = <<>> \/ st_data[1] # 35) => st_ret = st_data
        /\ WellFormedBlock(st_data) =>
              (st_ret = DeclaredPayload(st_data) /\ Len(st_ret) = EnvL(st_data))

\* Witness for C22: "#3120" and 120 bytes gave those 120 bytes.
C22_Witness == st_data = IeeeBlock /\ st_ret = Blob(120)

\* C23: _strip_ieee_block returns the input unchanged or exactly the declared
\* number of bytes that follow the length field, and on any inconsistency of
\* the envelope (no length-of-length digit, length digits that are not all
\* digits, a declared count larger than the bytes available) it returns the
\* input unchanged.
C23_InconsistentUnchanged ==
    st_ret # Unset =>
        /\ \/ st_ret = st_data
           \/ WellFormedBlock(st_data) /\ st_ret = DeclaredPayload(st_data)
        /\ ~WellFormedBlock(st_data) => st_ret = st_data

(***************************************************************************)
(* Claims about DISPLAY_COLOR                                              *)
(***************************************************************************)
\* The command is an HCSU command (it begins with "HCSU").
IsHcsu(c) == Len(c) >= 4 /\ SubSeq(c, 1, 4) = <<72, 67, 83, 85>>

\* C24: when DISPLAY_COLOR is neither WHITE nor BLACK, compared without
\* regard to case, each capture path (the VISA session, the raw VICP fallback
\* and the native VICP attempt) gives WHITE to the vendor commands and a
\* warning has been printed by the time the path has chosen its colour.
C24_CoercedWithWarning ==
    ~ValidColor(DISPLAY_COLOR) =>
        /\ pc \in {"s_try", "s_validate"} => (color = K_WHITE /\ warnings >= 1)
        /\ pc \in {"d_connect", "d_dump", "d_sockclose"} => (color = K_WHITE /\ warnings >= 1)
        /\ pc \in {"v_idn", "v_dump", "v_finally"} => (color = K_WHITE /\ warnings >= 1)
        /\ IsHcsu(cmd) => cmd = HcsuCommand(K_WHITE)

(***************************************************************************)
(* Claims about detect_vendor and the dispatch of _screen_dump             *)
(***************************************************************************)
\* The tags of the specification's vendor classes.
VendorTags == {"LECROY", "TEKTRONIX", "KEYSIGHT", "RIGOL", "SIGLENT", "UNKNOWN"}

\* The handler the specification gives to each vendor class.
OwnHandler(v) ==
    CASE v = "LECROY" -> "_dump_lecroy"
      [] v = "TEKTRONIX" -> "_dump_tektronix"
      [] v = "KEYSIGHT" -> "_dump_keysight"
      [] v \in {"RIGOL", "SIGLENT"} -> "_dump_rigol"
      [] OTHER -> ""

\* C25 as stated: every tag detect_vendor produces is LECROY, TEKTRONIX,
\* KEYSIGHT, RIGOL, SIGLENT or UNKNOWN, and every tag other than UNKNOWN has
\* a handler of its own in _screen_dump.
C25_Original ==
    vendor # "" =>
        /\ vendor \in VendorTags
        /\ vendor # "UNKNOWN" => HandlerOf(vendor) # ""

\* C25, amended: the tag is the one detect_vendor derives from the identity
\* text without regard to case; it is LECROY, TEKTRONIX, KEYSIGHT, RIGOL,
\* SIGLENT, RNS or UNKNOWN; every tag other than RNS and UNKNOWN is dispatched
\* to its own handler and to no other, and RNS, like UNKNOWN, goes through the
\* sequence of handlers tried for an unknown vendor.
C25_TagsAndHandlers ==
    vendor # "" =>
        /\ vendor = detect_vendor(Upper(idn))
        /\ vendor \in VendorTags \cup {"RNS"}
        /\ HandlerOf(vendor) = OwnHandler(vendor)
        /\ (HandlerOf(vendor) = "") <=> (vendor \in {"RNS", "UNKNOWN"})
        /\ (pc = "s_validate" /\ vendor \notin {"RNS", "UNKNOWN"})
               => invoked = <<OwnHandler(vendor)>>
        /\ (pc \in {"s_try", "s_validate"} /\ vendor \in {"RNS", "UNKNOWN"})
               => (Len(invoked) >= 1 /\ invoked = SubSeq(UnknownOrder, 1, Len(invoked)))
               \/ (pc = "s_try" /\ invoked = <<>>)

\* Witness for C25: an instrument identified as "R&S" got the tag RNS and the
\* second handler of the unknown-vendor sequence is about to run.
C25_Witness == pc = "s_try" /\ vendor = "RNS" /\ fi = 2 /\ invoked = <<"_dump_keysight">>

(***************************************************************************)
(* Claims about the order of the steps of an attempt                       *)
(***************************************************************************)
\* C26: in one invocation an image is saved at most once; the step that
\* saves is the save step of an attempt whose received data passed the
\* validation, and it saves that data; the save step is entered only from a
\* validation step that accepted the data; and whenever an attempt is about
\* to issue dump commands its identity query has been made.
C26_PersistOnceAfterValidation ==
    [][ /\ saved' # saved =>
              /\ saved = <<>>
              /\ Len(saved') = 1
              /\ pc \in {"v_save", "s_save"}
              /\ image_data \notin {Unset, None}
              /\ Accepts(image_data)
              /\ saved'[1].raw = image_data
        /\ (pc' \in {"v_save", "s_save"} /\ pc' # pc) =>
              /\ pc \in {"v_validate", "s_validate", "d_validate"}
              /\ Accepts(image_data)
              /\ image_data' = image_data
        /\ pc' \in {"v_dump", "s_dump", "s_try", "d_dump"} => vendor' # ""
        /\ pc' \in {"v_dump", "d_dump"} => vendor' = "LECROY"
      ]_vars

\* Witness for C26: the image received over the raw VICP fallback passed the
\* validation and was saved, the only image saved.
C26_Witness ==
    pc = "s_finally" /\ dg_tried /\ ret = "True" /\ Len(saved) = 1 /\ saved[1].img = image_data

(***************************************************************************)
(* Claims about termination                                                *)
(***************************************************************************)
\* C27 as stated, for _vicp_recv: when every sock.recv returns within its
\* timeout (with data, with end-of-stream or with a timeout), _vicp_recv
\* returns, whatever the peer does.
C27_RecvTerminates == <>(rpc = "done")

(***************************************************************************)
(* Claims about the vendor handlers                                        *)
(***************************************************************************)
\* C28 as stated: _dump_keysight writes one message to the instrument and no
\* other, the query ":DISP:DATA? PNG,<scheme>,COL", with scheme INKS when
\* the colour is WHITE and SCR when it is BLACK.
C28_SingleQuery ==
    dh_fn = "_dump_keysight" =>
        /\ Len(dh_written) <= 1
        /\ (dh_pc = "done" /\ dh_ret # Raised) =>
               dh_written = << ":DISP:DATA? PNG,"
                                 \o (IF dh_color = "WHITE" THEN "INKS" ELSE "SCR")
                                 \o ",COL" >>

\* C29: _dump_rigol first writes ":DISP:DATA? ON,<invert>,PNG" with invert
\* OFF for WHITE and ON for BLACK; it writes the legacy query ":DISP:DATA?"
\* exactly when the first answer is empty or shorter than 10 bytes, and then
\* returns the second answer; a first answer of 10 bytes or more is returned
\* with nothing more written.
C29_LegacyFallback ==
    dh_fn = "_dump_rigol" =>
        /\ dh_written # <<>> =>
               dh_written[1] = ":DISP:DATA? ON,"
                                 \o (IF dh_color = "WHITE" THEN "OFF" ELSE "ON") \o ",PNG"
        /\ Len(dh_written) <= 2
        /\ Len(dh_written) = 2 =>
               /\ dh_written[2] = ":DISP:DATA?"
               /\ Len(dh_reads) >= 1 /\ Len(dh_reads[1]) < 10
        /\ (dh_pc = "done" /\ dh_ret # Raised) =>
               IF Len(dh_reads[1]) < 10
               THEN Len(dh_written) = 2 /\ Len(dh_reads) = 2 /\ dh_ret = dh_reads[2]
               ELSE Len(dh_written) = 1 /\ Len(dh_reads) = 1 /\ dh_ret = dh_reads[1]

\* Witness for C29: a first answer of 10 bytes was returned and only the
\* parameterised query was written.
C29_Witness ==
    /\ dh_fn = "_dump_rigol" /\ dh_pc = "done" /\ dh_color = "BLACK"
    /\ dh_reads = <<Blob(10)>> /\ dh_ret = Blob(10)
    /\ dh_written = <<":DISP:DATA? ON,ON,PNG">>

(***************************************************************************)
(* Claims about the segmentation of the byte stream                        *)
(***************************************************************************)
\* The image that the bytes bs hold when each header and each payload is
\* taken whole: the payloads of the complete DATA frames up to the first
\* frame with EOI.
RECURSIVE StreamImage(_)
StreamImage(bs) ==
    IF Len(bs) < _VICP_HLEN THEN <<>>
    ELSE LET o == UnpackOp(SubSeq(bs, 1, _VICP_HLEN))
             l == UnpackLength(SubSeq(bs, 1, _VICP_HLEN))
         IN IF Len(bs) < _VICP_HLEN + l THEN <<>>
            ELSE (IF IsData(o) THEN SubSeq(bs, _VICP_HLEN + 1, _VICP_HLEN + l) ELSE <<>>)
                     \o (IF IsEoi(o) THEN <<>>
                         ELSE StreamImage(SubSeq(bs, _VICP_HLEN + l + 1, Len(bs))))

\* The bytes of the incomplete header or payload at the end of bs.
RECURSIVE StreamRest(_)
StreamRest(bs) ==
    IF Len(bs) < _VICP_HLEN THEN bs
    ELSE LET l == UnpackLength(SubSeq(bs, 1, _VICP_HLEN))
         IN IF Len(bs) < _VICP_HLEN + l THEN SubSeq(bs, _VICP_HLEN + 1, Len(bs))
            ELSE IF IsEoi(UnpackOp(SubSeq(bs, 1, _VICP_HLEN))) THEN <<>>
            ELSE StreamRest(SubSeq(bs, _VICP_HLEN + l + 1, Len(bs)))

\* C30: whatever the sizes of the chunks sock.recv returned, the bytes
\* accumulated by recv_exact and the image so far are those of the bytes
\* delivered taken whole, and the value _vicp_recv returns is a function of
\* the bytes delivered alone, the same for an end by EOI, close or timeout.
C30_ChunkingIrrelevant ==
    LET delivered == SubSeq(wire, 1, pos) IN
    /\ rpc \in {"hdr", "payload"} =>
           /\ image = StreamImage(delivered)
           /\ buf = StreamRest(delivered)
    /\ rpc = "done" => result = StreamImage(delivered)

\* Witness for C30: a call in which some recv returned fewer bytes than asked
\* for ended with the EOI frame and returned the payloads of two DATA frames.
C30_Witness ==
    /\ rpc = "done" /\ rend = "eoi" /\ split
    /\ Len(frames) = 2 /\ pos = Len(wire)
    /\ result = frames[1].payload \o frames[2].payload /\ Len(result) = 4

(***************************************************************************)
(* Claims about the native VICP path                                       *)
(***************************************************************************)
\* The identity text names a LeCroy instrument (line 241).
NamesLecroy(t) == Contains(Upper(t), K_LECROY) \/ Contains(Upper(t), K_TELEDYNE)

\* C31: in vicp_capture the HCSU and SCREEN_DUMP commands are sent only on an
\* open socket to port 1861 on which an identity reply naming a LeCroy was
\* received; when "*IDN?" cannot be sent, or the reply is empty or names
\* another vendor or none, no dump command is sent, the socket is closed and
\* vicp_capture returns False with nothing saved.
C31_DumpOnlyAfterLecroyIdn ==
    [][ /\ pc = "v_dump" =>
              /\ vendor = "LECROY" /\ NamesLecroy(idn)
              /\ sock = "open" /\ sock_addr = <<SCOPE_IP, VICP_PORT>>
        /\ (pc \in {"v_idn", "v_dump"} /\ (IsHcsu(cmd') \/ cmd' = CMD_SCREEN_DUMP)) =>
              (pc = "v_dump" /\ vendor = "LECROY" /\ NamesLecroy(idn))
        /\ (pc = "v_idn" /\ ~(idn' # <<>> /\ NamesLecroy(idn'))) =>
              /\ pc' = "v_finally" /\ ret' = "False"
              /\ cmd' = CMD_IDN
        /\ (pc = "v_finally" /\ ~(vendor = "LECROY")) =>
              /\ cmd = CMD_IDN
              /\ sock' = "closed"
              /\ success' = "False" /\ pc' = "m_after_vicp"
              /\ saved' = saved
      ]_vars

\* Witness for C31: the reply "Agilent" was classified KEYSIGHT and
\* vicp_capture is about to close the socket, "*IDN?" being the last command.
C31_Witness ==
    /\ pc = "v_finally" /\ vendor = "KEYSIGHT" /\ ret = "False"
    /\ cmd = CMD_IDN /\ sock = "open" /\ image_data = Unset

(***************************************************************************)
(* Claims about the network scan                                           *)
(***************************************************************************)
\* The positions of the futures whose scan_host call returned a result.
FoundFutures == {k \in 1..Len(se_futures) : se_futures[k].res.found}

\* C32: scan_ethernet submits scan_host once for each host of the subnet, in
\* the order of hosts; whatever the order in which the calls finish and are
\* yielded, results holds exactly one entry for each yielded call that
\* returned a result and nothing else, and at the return that is every call
\* that returned a result; all_results of scan_all_ethernet never holds two
\* entries with the same address, and seen_ips is the set of its addresses.
C32_OneResultPerHost ==
    /\ Len(se_futures) <= Len(se_hosts)
    /\ \A k \in 1..Len(se_futures) : se_futures[k].ip = se_hosts[k]
    /\ \A j, k \in 1..Len(se_hosts) : se_hosts[j] = se_hosts[k] => j = k
    /\ se_pc \in {"collect", "returned"} => Len(se_futures) = Len(se_hosts)
    /\ se_done = Cardinality(FuturesIn("yielded"))
    /\ se_found = Len(se_results)
    /\ Len(se_results) = Cardinality(FoundFutures \cap FuturesIn("yielded"))
    /\ \A k \in FoundFutures \cap FuturesIn("yielded") :
           /\ se_futures[k].res.address = se_futures[k].ip
           /\ Cardinality({j \in 1..Len(se_results) : se_results[j] = se_futures[k].res}) = 1
    /\ se_pc = "returned" =>
           /\ FuturesIn("yielded") = 1..Len(se_hosts)
           /\ {se_results[j].address : j \in 1..Len(se_results)}
                  = {se_futures[k].ip : k \in FoundFutures}
    /\ \A i, j \in 1..Len(sa_all_results) :
           sa_all_results[i].address = sa_all_results[j].address => i = j
    /\ sa_seen_ips = {sa_all_results[i].address : i \in 1..Len(sa_all_results)}

\* Witness for C32: two overlapping subnets were scanned; in the first the
\* call for the second host was yielded before the call for the first, and
\* the address found again in the second subnet is reported once.
C32_Witness ==
    /\ sa_pc = "done" /\ sa_subnets = <<"10.0.0.0/30", "10.0.0.0/31">>
    /\ Len(sa_all_results) = 2
    /\ sa_all_results[1].address = "10.0.0.2"
    /\ sa_all_results[2] = [found |-> TRUE, address |-> "10.0.0.1", port |-> 5025]
    /\ se_results = <<[found |-> TRUE, address |-> "10.0.0.1", port |-> 1861]>>

============================================================================
